---- MODULE Spec2Model ----
(***************************************************************************)
(* Model of the proposal draft generation engine                           *)
(* (auto_proposal_drafter.generator.ProposalGenerator and its catalog in   *)
(* auto_proposal_drafter.dictionaries).                                    *)
(*                                                                         *)
(* Conventions                                                             *)
(*   - an Optional[T] value is <<>> (None) or <<v>> (the value v);         *)
(*   - a tri-state asset flag is one of "None", "True", "False";           *)
(*   - text that the code searches (title, goal, notes, constraints, page  *)
(*     ids) is a sequence of one-character strings; other strings are      *)
(*     opaque;                                                             *)
(*   - a date is its day ordinal; hours are counted in tenths of an hour;  *)
(*   - the running total of the summary is an IEEE-754 binary64 value,     *)
(*     kept as an integer mantissa (little-endian limbs of LimbBits bits)  *)
(*     and a binary exponent.                                              *)
(***************************************************************************)
EXTENDS Integers, Sequences, FiniteSets, TLC

(***************************************************************************)
(* Bounds of the model                                                     *)
(***************************************************************************)
MaxDay == 2
MaxCalls == 2
MaxTokens == 2

(***************************************************************************)
(* Generic helpers                                                         *)
(***************************************************************************)
Max(a, b) == IF a >= b THEN a ELSE b

Range(s) == {s[i] : i \in 1..Len(s)}

RECURSIVE Flatten(_)
Flatten(ss) == IF ss = <<>> THEN <<>> ELSE Head(ss) \o Flatten(Tail(ss))

RECURSIVE SumSeq(_)
SumSeq(s) == IF s = <<>> THEN 0 ELSE Head(s) + SumSeq(Tail(s))

SelectIdx(s, P(_)) == SelectSeq([i \in 1..Len(s) |-> i], P)

Pow2(n) == 2 ^ n

(***************************************************************************)
(* Python str operations on character sequences                            *)
(***************************************************************************)
\* the cased characters of the model's alphabet
LowerLetters ==
  <<"a", "b", "c", "d", "e", "f", "g", "h", "i", "j", "k", "l", "m",
    "n", "o", "p", "q", "r", "s", "t", "u", "v", "w", "x", "y", "z">>

UpperLetters ==
  <<"A", "B", "C", "D", "E", "F", "G", "H", "I", "J", "K", "L", "M",
    "N", "O", "P", "Q", "R", "S", "T", "U", "V", "W", "X", "Y", "Z">>


LowerChar(c) ==
  IF c \in Range(UpperLetters) THEN LowerLetters[CHOOSE i \in 1..Len(UpperLetters) : UpperLetters[i] = c] ELSE c

\* "_long_s" is U+017F, whose upper case is "S"
UpperChar(c) ==
  IF c \in Range(LowerLetters) THEN UpperLetters[CHOOSE i \in 1..Len(LowerLetters) : LowerLetters[i] = c]
  ELSE IF c = "_long_s" THEN "S" ELSE c

\* str.lower()
Lower(t) == [i \in 1..Len(t) |-> LowerChar(t[i])]

RECURSIVE Upper(_)
\* str.upper(): the full case mapping, in which "_eszett" (U+00DF) becomes
\* the two characters "SS"
Upper(t) ==
  IF t = <<>> THEN <<>>
  ELSE (IF Head(t) = "_eszett" THEN <<"S", "S">> ELSE <<UpperChar(Head(t))>>) \o Upper(Tail(t))

\* str.title(): the first cased character of every word is upper-cased,
\* the other cased characters are lower-cased
TitleCase(t) ==
  [i \in 1..Len(t) |->
     IF i = 1 \/ t[i - 1] \notin Range(LowerLetters) \cup Range(UpperLetters)
       THEN UpperChar(t[i]) ELSE LowerChar(t[i])]

\* needle in haystack
Contains(hay, needle) ==
  \E i \in 0..(Len(hay) - Len(needle)) :
     \A j \in 1..Len(needle) : hay[i + j] = needle[j]


\* x or default, for an opaque str | None
OrDefaultStr(opt, default) == IF opt = <<>> \/ opt[1] = "" THEN default ELSE opt[1]

(***************************************************************************)
(* Natural numbers of arbitrary size: little-endian sequences of limbs in  *)
(* 0..Base-1 without most-significant zero limbs (zero is <<>>).           *)
(***************************************************************************)
LimbBits == 13

Base == Pow2(LimbBits)

RECURSIVE Trim(_)
Trim(b) == IF b # <<>> /\ b[Len(b)] = 0 THEN Trim(SubSeq(b, 1, Len(b) - 1)) ELSE b

RECURSIVE Carry(_, _)
Carry(s, c) ==
  IF s = <<>>
    THEN IF c = 0 THEN <<>> ELSE <<c % Base>> \o Carry(<<>>, c \div Base)
    ELSE <<(Head(s) + c) % Base>> \o Carry(Tail(s), (Head(s) + c) \div Base)

BigFromNat(n) == Trim(Carry(<<n>>, 0))

RECURSIVE BigToNat(_)
BigToNat(b) == IF b = <<>> THEN 0 ELSE Head(b) + Base * BigToNat(Tail(b))

BigMul(a, b) ==
  Trim(Carry([k \in 1..(Len(a) + Len(b)) |->
                SumSeq([i \in 1..Len(a) |->
                          IF k + 1 - i \in 1..Len(b) THEN a[i] * b[k + 1 - i] ELSE 0])],
             0))

BigInc(b) == Trim(Carry(b, 1))

RECURSIVE BitLenNat(_)
BitLenNat(n) == IF n = 0 THEN 0 ELSE 1 + BitLenNat(n \div 2)

BitLen(b) == IF b = <<>> THEN 0 ELSE LimbBits * (Len(b) - 1) + BitLenNat(b[Len(b)])

\* bit k (k >= 0) of b
Bit(b, k) ==
  IF (k \div LimbBits) + 1 > Len(b) THEN 0
  ELSE (b[(k \div LimbBits) + 1] \div Pow2(k % LimbBits)) % 2

\* b mod 2^k = 0
LowBitsZero(b, k) ==
  /\ \A i \in 1..(k \div LimbBits) : i > Len(b) \/ b[i] = 0
  /\ (k \div LimbBits) + 1 > Len(b)
       \/ b[(k \div LimbBits) + 1] % Pow2(k % LimbBits) = 0

\* floor(b / 2^s)
ShiftRight(b, s) ==
  LET q == s \div LimbBits
      r == s % LimbBits
      rest == IF q >= Len(b) THEN <<>> ELSE SubSeq(b, q + 1, Len(b))
  IN  Trim([i \in 1..Len(rest) |->
              (rest[i] \div Pow2(r))
              + (IF i < Len(rest) THEN (rest[i + 1] % Pow2(r)) * Pow2(LimbBits - r) ELSE 0)])

\* b * 2^s
ShiftLeft(b, s) ==
  Trim(Carry([i \in 1..(s \div LimbBits) |-> 0]
             \o [i \in 1..Len(b) |-> b[i] * Pow2(s % LimbBits)], 0))

\* quotient and remainder of b by a small divisor d
RECURSIVE DivLimbs(_, _, _)
DivLimbs(b, d, rem) ==
  IF b = <<>> THEN [q |-> <<>>, r |-> rem]
  ELSE LET top == rem * Base + b[Len(b)]
           lower == DivLimbs(SubSeq(b, 1, Len(b) - 1), d, top % d)
       IN  [q |-> lower.q \o <<top \div d>>, r |-> lower.r]

BigDivSmall(b, d) == [q |-> Trim(DivLimbs(b, d, 0).q), r |-> DivLimbs(b, d, 0).r]

(***************************************************************************)
(* IEEE-754 binary64 (Python float) values m * 2^e with m < 2^MantBits,    *)
(* rounded to nearest, ties to even.  Only positive, normal values occur.  *)
(***************************************************************************)
MantBits == 53

\* floor(b / 2^s) rounded to nearest, ties to even (s >= 1)
RoundShift(b, s) ==
  LET q == ShiftRight(b, s)
      guard == Bit(b, s - 1) = 1
      sticky == ~LowBitsZero(b, s - 1)
  IN  IF guard /\ (sticky \/ Bit(q, 0) = 1) THEN BigInc(q) ELSE q

FRound(m, e) ==
  IF BitLen(m) <= MantBits THEN [m |-> m, e |-> e]
  ELSE [m |-> RoundShift(m, BitLen(m) - MantBits), e |-> e + BitLen(m) - MantBits]

\* float(n) for a natural number below 2^31
FFromNat(n) == [m |-> BigFromNat(n), e |-> 0]

\* the float literal num/den (num, den > 0): the nearest binary64 value
FFromRatio(num, den) ==
  LET k0 == MantBits - 1 + BitLenNat(den) - BitLenNat(num)
      k == IF BitLen(BigDivSmall(ShiftLeft(BigFromNat(num), k0), den).q) < MantBits
             THEN k0 + 1 ELSE k0
      d == BigDivSmall(ShiftLeft(BigFromNat(num), k), den)
      up == 2 * d.r > den \/ (2 * d.r = den /\ Bit(d.q, 0) = 1)
  IN  [m |-> IF up THEN BigInc(d.q) ELSE d.q, e |-> 0 - k]

\* x * y
FMul(x, y) == FRound(BigMul(x.m, y.m), x.e + y.e)

\* int(x): truncation toward zero
FTrunc(x) ==
  IF x.e >= 0 THEN BigToNat(ShiftLeft(x.m, x.e)) ELSE BigToNat(ShiftRight(x.m, 0 - x.e))


(***************************************************************************)
(* Text literals of the generator.  Characters outside ASCII are written   *)
(* as romanised one-character tokens with a leading underscore.            *)
(***************************************************************************)
\* lp: "lp", landing: "ランディング", lead_kana: "リード", lead: "lead", recruit:
\* "採用", brand: "ブランド", brand_color: "ブランドカラー", CMS: "CMS", result: "成果",
\* goal_lead: "B2B向けのリード獲得", goal_recruit: "採用強化", goal_brand: "ブランド想起向上",
\* top: "top", home: "home", Top: "Top", contact: "contact"
T ==
  [lp |-> <<"l", "p">>,
   landing |-> <<"_ra", "_n", "_de", "_i", "_n", "_gu">>,
   lead_kana |-> <<"_ri", "_-", "_do">>,
   lead |-> <<"l", "e", "a", "d">>,
   recruit |-> <<"_sai", "_you">>,
   brand |-> <<"_bu", "_ra", "_n", "_do">>,
   brand_color |-> <<"_bu", "_ra", "_n", "_do", "_ka", "_ra", "_-">>,
   CMS |-> <<"C", "M", "S">>,
   result |-> <<"_sei", "_ka2">>,
   goal_lead |-> <<"B", "2", "B", "_kou", "_ke", "_no", "_ri", "_-", "_do", "_kaku", "_toku">>,
   goal_recruit |-> <<"_sai", "_you", "_kyou", "_ka3">>,
   goal_brand |-> <<"_bu", "_ra", "_n", "_do", "_sou", "_ki", "_kou", "_jou">>,
   top |-> <<"t", "o", "p">>,
   home |-> <<"h", "o", "m", "e">>,
   Top |-> <<"T", "o", "p">>,
   contact |-> <<"c", "o", "n", "t", "a", "c", "t">>]

(***************************************************************************)
(* Catalog: dictionaries.py.  Opaque strings are given in ASCII.           *)
(***************************************************************************)
\* a placeholder template: its text and the replacement fields it names
Template(text, fields) == [text |-> text, fields |-> fields]

SectionDefinition(label, kind, variant, design_hours, copy_hints, placeholders) ==
  [key |-> <<kind, variant>>, label |-> label, kind |-> kind, variant |-> variant,
   design_hours |-> design_hours, copy_hints |-> copy_hints, placeholders |-> placeholders]

\* design_hours are in tenths of an hour
DEFAULT_SECTIONS ==
  (<<"Hero", "Center">> :>
     SectionDefinition("Hero", "Hero", "Center", 15,
       <<"hint: customer problem and value in one line", "hint: key benefits as bullets",
         "hint: CTA link lead-in">>,
       [headline |-> Template("{company} ga {persona_goal} wo kasoku", {"company", "persona_goal"}),
        sub |-> Template("{goal_phrase}", {"goal_phrase"})]))
  @@ (<<"SocialProof", "LogosStrip">> :>
     SectionDefinition("Social Proof", "SocialProof", "LogosStrip", 10,
       <<"hint: introduce 3-5 client companies">>,
       [headline |-> Template("donyu kigyo", {}), logos |-> Template("A-sha / B-sha / C-sha", {})]))
  @@ (<<"Features", "3ColsIcons">> :>
     SectionDefinition("Features", "Features", "3ColsIcons", 14,
       <<"hint: three benefits briefly">>,
       [col1 |-> Template("tokucho 1", {}), col2 |-> Template("tokucho 2", {}),
        col3 |-> Template("tokucho 3", {})]))
  @@ (<<"CaseStudies", "Cards3">> :>
     SectionDefinition("Case Studies", "CaseStudies", "Cards3", 13,
       <<"hint: summarise success cases">>,
       [title |-> Template("donyu jirei", {})]))
  @@ (<<"Offer", "PricingSimple">> :>
     SectionDefinition("Offer", "Offer", "PricingSimple", 12,
       <<"hint: base plan and differentiators">>,
       [plan |-> Template("standard plan", {})]))
  @@ (<<"FAQ", "Accordion">> :>
     SectionDefinition("FAQ", "FAQ", "Accordion", 10,
       <<"hint: 3-5 questions and answers">>,
       [q1 |-> Template("shitsumon 1", {}), a1 |-> Template("kaito 1", {})]))
  @@ (<<"CTA", "PrimaryBottom">> :>
     SectionDefinition("CTA", "CTA", "PrimaryBottom", 6,
       <<"hint: one line prompting submission">>,
       [cta |-> Template("shiryo seikyu wa kochira", {})]))
  @@ (<<"Form", "ContactBasic">> :>
     SectionDefinition("Form", "Form", "ContactBasic", 12,
       <<"hint: about six input fields">>,
       [submit |-> Template("soshin", {})]))
  @@ (<<"About", "Split">> :>
     SectionDefinition("About", "About", "Split", 11,
       <<"hint: company overview briefly">>,
       [headline |-> Template("kaisha gaiyo", {})]))
  @@ (<<"Services", "Grid">> :>
     SectionDefinition("Services", "Services", "Grid", 13,
       <<"hint: organise service categories">>,
       [headline |-> Template("teikyo service", {})]))

\* models/structure.py
SectionSpec(kind, variant, copy) ==
  [kind |-> kind, variant |-> variant, copy |-> copy, notes |-> <<>>]

SitePageSpec(page_id, type, goal, sections, notes) ==
  [page_id |-> page_id, type |-> type, goal |-> goal, sections |-> sections, notes |-> notes]

DEFAULT_PAGE_PRESETS ==
  ("LP" :>
     <<SitePageSpec(T.top, "LP", <<"lead kakutoku">>,
         <<SectionSpec("Hero", "Center", <<>>),
           SectionSpec("SocialProof", "LogosStrip", <<>>),
           SectionSpec("Features", "3ColsIcons", <<>>),
           SectionSpec("CaseStudies", "Cards3", <<>>),
           SectionSpec("Offer", "PricingSimple", <<>>),
           SectionSpec("FAQ", "Accordion", <<>>),
           SectionSpec("CTA", "PrimaryBottom", <<>>),
           SectionSpec("Form", "ContactBasic", <<>>)>>, <<>>)>>)
  @@ ("Corporate" :>
     <<SitePageSpec(T.home, "Corporate", <<"kigyo rikai">>,
         <<SectionSpec("Hero", "Center", <<>>),
           SectionSpec("About", "Split", <<>>),
           SectionSpec("Services", "Grid", <<>>),
           SectionSpec("CaseStudies", "Cards3", <<>>),
           SectionSpec("FAQ", "Accordion", <<>>),
           SectionSpec("CTA", "PrimaryBottom", <<>>),
           SectionSpec("Form", "ContactBasic", <<>>)>>, <<>>)>>)

\* yen per hour
DEFAULT_RATES == [IA |-> 12000, Design |-> 12000, PM |-> 12000]

DEFAULT_ASSUMPTIONS ==
  <<"photo assets are assumed to be supplied", "CMS build is estimated separately",
    "first-view wording is fixed by the client">>

\* the deadline thresholds, in days
ShortDeadlineDays == 45

RiskDeadlineDays == 45

\* a float literal of the catalog, written num/den
Decimal(num, den) == [num |-> num, den |-> den]

CoefficientRule(name, multiplier, reason, predicate) ==
  [name |-> name, multiplier |-> multiplier, reason |-> reason, predicate |-> predicate]

\* the names of the default coefficients:
\* "短納期", "素材未提供（コピー）", "CMS要件含む"
COEFF ==
  [short_deadline |-> "tan-noki", copy_missing |-> "sozai mi-teikyo (copy)",
   cms |-> "CMS yoken fukumu"]


DEFAULT_COEFFICIENT_RULES ==
  <<CoefficientRule(COEFF.short_deadline, Decimal(115, 100), "deadline under 45 days",
                    "short_deadline"),
    CoefficientRule(COEFF.copy_missing, Decimal(120, 100), "copy assets not supplied",
                    "copy_missing"),
    CoefficientRule(COEFF.cms, Decimal(110, 100), "CMS request in the notes", "cms_notes")>>

GenerationContext(today, struct) == [today |-> today, structure |-> struct]

\* TypeError of None - date
SubtractRaises(deadline) == deadline = <<>>


\* the predicates of DEFAULT_COEFFICIENT_RULES; in "a and b", b is evaluated
\* only when a is truthy
\* "<=" instead of "<"
ShortDeadlineInclusive(opp, ctx) ==
  opp.deadline # <<>> /\ opp.deadline[1] - ctx.today <= ShortDeadlineDays

ShortDeadlinePredicate(opp, ctx) ==
  opp.deadline # <<>> /\ opp.deadline[1] - ctx.today < ShortDeadlineDays

\* "not opp.assets.copy" instead of "opp.assets.copy is False"
CopyMissingFalsy(opp, ctx) == opp.assets.copy # "True"

CopyMissingPredicate(opp, ctx) == opp.assets.copy = "False"

CmsNotesPredicate(opp, ctx) ==
  opp.notes # <<>> /\ opp.notes[1] # <<>> /\ Contains(Upper(opp.notes[1]), T.CMS)

\* the subtraction without the "opp.deadline and" guard
ShortDeadlineUnguarded(opp) == SubtractRaises(opp.deadline)

\* the exceptions of the predicates
ShortDeadlineRaises(opp) == opp.deadline # <<>> /\ SubtractRaises(opp.deadline)


PredicateRaises(rule, opp) ==
  CASE rule.predicate = "short_deadline" -> ShortDeadlineRaises(opp)
    [] rule.predicate = "copy_missing" -> FALSE
    [] rule.predicate = "cms_notes" ->
         \* AttributeError of None.upper()
         (opp.notes # <<>> /\ opp.notes[1] # <<>>) /\ opp.notes = <<>>

Predicate(rule, opp, ctx) ==
  CASE rule.predicate = "short_deadline" -> ShortDeadlinePredicate(opp, ctx)
    [] rule.predicate = "copy_missing" -> CopyMissingPredicate(opp, ctx)
    [] rule.predicate = "cms_notes" -> CmsNotesPredicate(opp, ctx)

\* Evaluate returning the coefficient when the predicate is false
EvaluateInverted(rule, opp, ctx) ==
  IF ~Predicate(rule, opp, ctx)
    THEN <<[name |-> rule.name, multiplier |-> rule.multiplier, reason |-> <<rule.reason>>]>>
    ELSE <<>>

\* CoefficientRule.evaluate: an Optional[EstimateCoefficient]
Evaluate(rule, opp, ctx) ==
  IF Predicate(rule, opp, ctx)
    THEN <<[name |-> rule.name, multiplier |-> rule.multiplier, reason |-> <<rule.reason>>]>>
    ELSE <<>>

(***************************************************************************)
(* ProposalGenerator: generator.py.  A generator gen is the record of the  *)
(* catalog fields set by __init__: page_presets, sections, rates,          *)
(* assumptions, coefficient_rules.                                         *)
(***************************************************************************)
ProposalGenerator(page_presets, sections, rates, assumptions, coefficient_rules) ==
  [page_presets |-> page_presets, sections |-> sections, rates |-> rates,
   assumptions |-> assumptions, coefficient_rules |-> coefficient_rules]

\* InferSiteType testing the recruiting signal before the lead signal
InferSiteTypeRecruitFirst(opp) ==
  LET title == Lower(opp.title)
      goal == Lower(opp.goal)
  IN  IF Contains(title, T.lp) \/ Contains(opp.title, T.landing) THEN "LP"
      ELSE IF Contains(goal, T.recruit) THEN "Corporate"
      ELSE IF Contains(goal, T.lead_kana) \/ Contains(goal, T.lead) THEN "LP"
      ELSE "LP"

\* _infer_site_type
InferSiteType(opp) ==
  LET title == Lower(opp.title)
      goal == Lower(opp.goal)
  IN  IF Contains(title, T.lp) \/ Contains(opp.title, T.landing) THEN "LP"
      ELSE IF Contains(goal, T.lead_kana) \/ Contains(goal, T.lead) THEN "LP"
      ELSE IF Contains(goal, T.recruit) THEN "Corporate"
      ELSE "LP"

\* opportunity.goal or "成果"
GoalOrDefault(opp) == IF opp.goal = <<>> THEN T.result ELSE opp.goal

\* _goal_phrase
GoalPhrase(opp) ==
  LET goal == GoalOrDefault(opp)
  IN  IF Contains(goal, T.lead_kana) THEN T.goal_lead
      ELSE IF Contains(goal, T.recruit) THEN T.goal_recruit
      ELSE IF Contains(goal, T.brand) THEN T.goal_brand
      ELSE goal

\* seq[:n]
Take(seq, n) == SubSeq(seq, 1, IF Len(seq) < n THEN Len(seq) ELSE n)

\* _build_section_copy: the copy lines of a section, each line the tuple of
\* the parts of its f-string
BuildSectionCopy(opp, definition) ==
  LET goal_phrase == GoalPhrase(opp)
      persona == OrDefaultStr(opp.persona, "sotei kokyaku")
      goal == GoalOrDefault(opp)
      kind == definition.kind
  IN  CASE kind = "Hero" ->
             << <<opp.company, " ga ", goal_phrase, " wo shien">>,
                <<persona, " no kadai wo ", goal, " shiten de kaiketsu">>,
                <<"mazu wa shiryo seikyu / otoiawase de shosai wo go-kakunin kudasai">> >>
        [] kind = "SocialProof" ->
             << <<IF opp.references # <<>> THEN Take(opp.references, 3) ELSE <<"gyokai kakusha">>,
                  " nado de donyu jisseki">>,
                <<"anshin shite go-sodan itadakemasu">> >>
        [] kind = "Features" ->
             LET musts == IF Take(opp.must_have, 3) # <<>> THEN Take(opp.must_have, 3)
                          ELSE <<"takai CVR", "chokkanteki na dosen", "unyo no shiyasusa">>
             IN  [i \in 1..Len(musts) |-> <<"tokucho", i, ": ", musts[i]>>]
        [] kind = "CaseStudies" ->
             << <<"taisho gyokai de no seiko jirei wo keisai">>,
                <<"donyu haikei to seika wo suchi de teiji">> >>
        [] kind = "Offer" ->
             << <<"speed jushi no hyojun package">>,
                <<"gaisan hiyo-tai: ", OrDefaultStr(opp.budget_band, "yo-sodan")>> >>
        [] kind = "FAQ" ->
             << <<"donyu schedule ya taisei no FAQ wo seibi">>,
                <<"security / hoshu ni kansuru shitsumon mo sotei">> >>
        [] kind = "CTA" ->
             << <<"o-kigaru ni shiryo seikyu / uchiawase wo go-irai kudasai">> >>
        [] kind = "Form" ->
             << <<"shimei / kaishamei / renrakusaki / sodan naiyo wo sotei">>,
                <<"6 komoku inai de ridatsu wo yokusei">> >>
        [] kind = "About" ->
             << <<opp.company, " no jigyo gaiyo to mission">>,
                <<"enkaku / shuyo member no shokai">> >>
        [] kind = "Services" ->
             << <<"teikyo service category wo wakariyasuku seiri">>,
                <<"option taio han-i mo kisai">> >>
        [] OTHER -> [i \in 1..Len(definition.copy_hints) |-> <<definition.copy_hints[i]>>]

\* self._sections.get(f"{kind}/{variant}"): an Optional[SectionDefinition]
SectionsGet(gen, section) ==
  IF <<section.kind, section.variant>> \in DOMAIN gen.sections
    THEN <<gen.sections[<<section.kind, section.variant>>]>>
    ELSE <<>>

\* self._page_presets.get(site_type, ())
PresetsGet(gen, site_type) ==
  IF site_type \in DOMAIN gen.page_presets THEN gen.page_presets[site_type] ELSE <<>>

\* PresetPages without the fallback
PresetPagesNoFallback(gen, site_type) == PresetsGet(gen, site_type)

\* _build_structure, lines 86-88: the preset pages, with the fallback to "LP"
PresetPages(gen, site_type) ==
  IF PresetsGet(gen, site_type) # <<>> THEN PresetsGet(gen, site_type)
  ELSE gen.page_presets["LP"]


\* _build_structure, lines 92-100: one section of a preset, resolved
ResolveSection(gen, opp, section) ==
  IF SectionsGet(gen, section) = <<>> THEN section
  ELSE SectionSpec(section.kind, section.variant,
                   <<BuildSectionCopy(opp, SectionsGet(gen, section)[1])>>)

\* ResolvePages skipping the sections without a definition
ResolvePagesDefinedOnly(gen, opp, pages) ==
  [p \in 1..Len(pages) |->
     SitePageSpec(pages[p].page_id, pages[p].type, pages[p].goal,
                  LET defined == SelectSeq(pages[p].sections,
                                           LAMBDA sec : SectionsGet(gen, sec) # <<>>)
                  IN  [i \in 1..Len(defined) |-> ResolveSection(gen, opp, defined[i])],
                  pages[p].notes)]

\* _build_structure, lines 89-109
ResolvePages(gen, opp, pages) ==
  [p \in 1..Len(pages) |->
     SitePageSpec(pages[p].page_id, pages[p].type, pages[p].goal,
                  [i \in 1..Len(pages[p].sections) |->
                     ResolveSection(gen, opp, pages[p].sections[i])],
                  pages[p].notes)]

\* the items of _derive_uncertains and _derive_risks
UNCERTAIN ==
  [deadline |-> "noki mi-kakutei -> hearing yo", copy |-> "copy teikyo timing no kakunin",
   photo |-> "shashin sozai no chotatsu hoho", must_have |-> "hissu kino no kakutei"]

\* schedule: "短納期でのスケジュール逼迫"
RISK ==
  [copy |-> "copy mi-teikyo ni tomonau seisaku chien",
   schedule |-> "tan-noki de no schedule hippaku",
   brand |-> "brand guideline genshu ni yoru rework"]

\* DeriveUncertains testing "not flag" instead of "flag is False"
DeriveUncertainsFalsy(opp) ==
  (IF opp.deadline = <<>> THEN <<UNCERTAIN.deadline>> ELSE <<>>)
  \o (IF opp.assets.copy # "True" THEN <<UNCERTAIN.copy>> ELSE <<>>)
  \o (IF opp.assets.photo # "True" THEN <<UNCERTAIN.photo>> ELSE <<>>)
  \o (IF opp.must_have = <<>> THEN <<UNCERTAIN.must_have>> ELSE <<>>)

\* _derive_uncertains
DeriveUncertains(opp) ==
  (IF opp.deadline = <<>> THEN <<UNCERTAIN.deadline>> ELSE <<>>)
  \o (IF opp.assets.copy = "False" THEN <<UNCERTAIN.copy>> ELSE <<>>)
  \o (IF opp.assets.photo = "False" THEN <<UNCERTAIN.photo>> ELSE <<>>)
  \o (IF opp.must_have = <<>> THEN <<UNCERTAIN.must_have>> ELSE <<>>)

\* _derive_risks, line 314; date_today is the value of date.today() there
ScheduleRisk(opp, date_today) ==
  opp.deadline # <<>> /\ opp.deadline[1] - date_today < RiskDeadlineDays


\* _derive_risks
DeriveRisks(opp, date_today) ==
  (IF opp.assets.copy = "False" THEN <<RISK.copy>> ELSE <<>>)
  \o (IF ScheduleRisk(opp, date_today) THEN <<RISK.schedule>> ELSE <<>>)
  \o (IF Contains(Flatten(opp.constraints), T.brand_color) THEN <<RISK.brand>> ELSE <<>>)

HasKind(page, kind) == \E i \in 1..Len(page.sections) : page.sections[i].kind = kind

\* DeriveFlows emitting the CTA flow of a page before its Form flow
DeriveFlowsCtaFirst(pages) ==
  LET flows == Flatten([p \in 1..Len(pages) |->
                 (IF HasKind(pages[p], "CTA")
                    THEN << <<TitleCase(pages[p].page_id), "->CTA">> >> ELSE <<>>)
                 \o (IF HasKind(pages[p], "Form")
                    THEN << <<TitleCase(pages[p].page_id), "->Form">> >> ELSE <<>>)])
  IN  IF flows # <<>> THEN flows ELSE << <<T.Top, "->Form">> >>

\* _derive_flows
DeriveFlows(pages) ==
  LET flows == Flatten([p \in 1..Len(pages) |->
                 (IF HasKind(pages[p], "Form")
                    THEN << <<TitleCase(pages[p].page_id), "->Form">> >> ELSE <<>>)
                 \o (IF HasKind(pages[p], "CTA")
                    THEN << <<TitleCase(pages[p].page_id), "->CTA">> >> ELSE <<>>)])
  IN  IF flows # <<>> THEN flows ELSE << <<T.Top, "->Form">> >>

\* the exceptions of _build_structure
BuildStructureRaises(gen, opp, site_type) ==
  \* KeyError of self._page_presets["LP"]
  \/ PresetsGet(gen, site_type) = <<>> /\ "LP" \notin DOMAIN gen.page_presets
  \* TypeError of line 314
  \/ opp.deadline # <<>> /\ SubtractRaises(opp.deadline)

\* _build_structure
BuildStructure(gen, opp, site_type, date_today) ==
  [site_map |-> ResolvePages(gen, opp, PresetPages(gen, site_type)),
   flows |-> DeriveFlows(ResolvePages(gen, opp, PresetPages(gen, site_type))),
   uncertains |-> DeriveUncertains(opp),
   risks |-> DeriveRisks(opp, date_today)]


\* _build_wire, lines 125-129: the keyword arguments of str.format
FormatKwargs(opp) ==
  [company |-> <<opp.company>>, persona_goal |-> GoalOrDefault(opp),
   goal_phrase |-> GoalPhrase(opp)]

\* value.format(**kwargs): the template with its fields bound
Format(template, kwargs) ==
  [text |-> template.text, args |-> [f \in template.fields |-> kwargs[f]]]

\* KeyError of value.format(**kwargs)
FormatRaises(template, kwargs) == ~(template.fields \subseteq DOMAIN kwargs)

\* Placeholders starting from an empty mapping instead of None
PlaceholdersEmptyMapping(gen, opp, section) ==
  IF SectionsGet(gen, section) = <<>> THEN << <<>> >>
  ELSE LET templates == SectionsGet(gen, section)[1].placeholders
       IN  <<[k \in DOMAIN templates |-> Format(templates[k], FormatKwargs(opp))]>>

\* _build_wire, lines 121-134: an Optional[Mapping[str, str]]
Placeholders(gen, opp, section) ==
  IF SectionsGet(gen, section) = <<>> THEN <<>>
  ELSE LET templates == SectionsGet(gen, section)[1].placeholders
       IN  <<[k \in DOMAIN templates |-> Format(templates[k], FormatKwargs(opp))]>>

WireSection(kind, variant, placeholders) ==
  [kind |-> kind, variant |-> variant, placeholders |-> placeholders]

\* models/wire.py, WireDraft.frames
DefaultFrames == <<"Desktop", "Tablet", "Mobile">>

\* _build_wire, lines 117-135
WirePages(gen, opp, site_map) ==
  [p \in 1..Len(site_map) |->
     [page_id |-> site_map[p].page_id,
      sections |-> [i \in 1..Len(site_map[p].sections) |->
                      WireSection(site_map[p].sections[i].kind,
                                  site_map[p].sections[i].variant,
                                  Placeholders(gen, opp, site_map[p].sections[i]))],
      notes |-> site_map[p].notes]]

\* BuildWire walking structure.site_map[1:]
BuildWireSkipFirst(gen, opp, struct) ==
  [project |-> [id |-> opp.id, title |-> <<opp.company, " ", opp.title>>],
   frames |-> DefaultFrames,
   pages |-> WirePages(gen, opp, SubSeq(struct.site_map, 2, Len(struct.site_map)))]

\* _build_wire
BuildWire(gen, opp, struct) ==
  [project |-> [id |-> opp.id, title |-> <<opp.company, " ", opp.title>>],
   frames |-> DefaultFrames,
   pages |-> WirePages(gen, opp, struct.site_map)]

BuildWireRaises(gen, opp, struct) ==
  \E p \in 1..Len(struct.site_map) : \E i \in 1..Len(struct.site_map[p].sections) :
     LET d == SectionsGet(gen, struct.site_map[p].sections[i])
     IN  d # <<>> /\ \E k \in DOMAIN d[1].placeholders :
                        FormatRaises(d[1].placeholders[k], FormatKwargs(opp))

\* models/estimate.py; hours in tenths of an hour, rate in yen per hour
EstimateLineItem(item, qty, hours, rate, role) ==
  [item |-> item, qty |-> qty, hours |-> hours, rate |-> rate, role |-> role]

\* EstimateLineItem.cost, in yen.  Every rate of the model is a multiple of
\* 10 yen, so qty * hours * rate is a whole number of yen, which
\* round(..., 2) returns exactly.
Cost(line_item) == (line_item.qty * line_item.hours * line_item.rate) \div 10

\* the floor of the IA and PM hours (4.0), the IA hours per section (1.5) and
\* the PM hours per line item (0.6), in tenths of an hour
MinHours == 40

IaHoursPerSection == 15

PmHoursPerItem == 6

\* IaHours counting only the sections that were resolved against a
\* catalog definition
IaHoursDefinedOnly(struct) ==
  Max(MinHours, IF struct.site_map # <<>>
                  THEN IaHoursPerSection
                       * Len(SelectSeq(struct.site_map[1].sections, LAMBDA sec : sec.copy # <<>>))
                  ELSE MinHours)

\* _build_estimate, line 146
IaHours(struct) ==
  Max(MinHours, IF struct.site_map # <<>>
                  THEN IaHoursPerSection * Len(struct.site_map[1].sections)
                  ELSE MinHours)

\* PmHours computed after the PM item has been appended
PmHoursCountingItself(line_items) ==
  Max(MinHours, PmHoursPerItem * (Len(line_items) + 1))

\* _build_estimate, line 172, and round(pm_hours, 1) of line 177: the tenth
\* of an hour nearest to len(line_items) * 0.6 is 6 * len(line_items)
PmHours(line_items) == Max(MinHours, PmHoursPerItem * Len(line_items))

\* _build_estimate, lines 157-171: the Design line items of one page
DesignItems(gen, page) ==
  LET defined == SelectSeq(page.sections, LAMBDA sec : SectionsGet(gen, sec) # <<>>)
  IN  [i \in 1..Len(defined) |->
         EstimateLineItem(<<TitleCase(page.page_id), ": ", SectionsGet(gen, defined[i])[1].label>>,
                          1, SectionsGet(gen, defined[i])[1].design_hours,
                          gen.rates["Design"], "Design")]

\* LineItems with the Design items of the first page only
LineItemsFirstPage(gen, struct) ==
  LET ia == <<EstimateLineItem(<<"IA (sitemap / yoken seiri)">>, 1, IaHours(struct),
                               gen.rates["IA"], "IA")>>
      design == IF struct.site_map = <<>> THEN <<>> ELSE DesignItems(gen, struct.site_map[1])
      pm == <<EstimateLineItem(<<"PM (shinko kanri / teirei)">>, 1,
                               Max(MinHours, PmHoursPerItem * Len(ia \o design)),
                               gen.rates["PM"], "PM")>>
  IN  ia \o design \o pm

\* _build_estimate, lines 145-181
LineItems(gen, struct) ==
  LET ia == <<EstimateLineItem(<<"IA (sitemap / yoken seiri)">>, 1, IaHours(struct),
                               gen.rates["IA"], "IA")>>
      design == Flatten([p \in 1..Len(struct.site_map) |-> DesignItems(gen, struct.site_map[p])])
      pm == <<EstimateLineItem(<<"PM (shinko kanri / teirei)">>, 1, PmHours(ia \o design),
                               gen.rates["PM"], "PM")>>
  IN  ia \o design \o pm

\* Coefficients taking a coefficient from every rule, whatever its predicate
CoefficientsUnfiltered(gen, opp, ctx) ==
  [r \in 1..Len(gen.coefficient_rules) |->
     [name |-> gen.coefficient_rules[r].name,
      multiplier |-> gen.coefficient_rules[r].multiplier,
      reason |-> <<gen.coefficient_rules[r].reason>>]]

\* _build_estimate, lines 183-187
Coefficients(gen, opp, ctx) ==
  Flatten([r \in 1..Len(gen.coefficient_rules) |-> Evaluate(gen.coefficient_rules[r], opp, ctx)])


\* Assumptions appending for every flag that is not true
AssumptionsFalsy(gen, opp) ==
  gen.assumptions
  \o (IF opp.assets.photo # "True" THEN <<"shashin sozai wa betto satsuei / sentei ga hitsuyo">> ELSE <<>>)
  \o (IF opp.assets.copy # "True" THEN <<"copywriting wa kyodo de jisshi">> ELSE <<>>)

\* _build_estimate, lines 189-193
Assumptions(gen, opp) ==
  gen.assumptions
  \o (IF opp.assets.photo = "False" THEN <<"shashin sozai wa betto satsuei / sentei ga hitsuyo">> ELSE <<>>)
  \o (IF opp.assets.copy = "False" THEN <<"copywriting wa kyodo de jisshi">> ELSE <<>>)

\* _build_estimate
BuildEstimate(gen, opp, struct, ctx) ==
  [line_items |-> LineItems(gen, struct),
   coefficients |-> Coefficients(gen, opp, ctx),
   assumptions |-> Assumptions(gen, opp),
   currency |-> "JPY"]

\* the exceptions of _build_estimate: KeyError of self._rates[role], and
\* those of the coefficient predicates
BuildEstimateRaises(gen, opp, struct) ==
  \/ "IA" \notin DOMAIN gen.rates
  \/ "Design" \notin DOMAIN gen.rates
       /\ \E p \in 1..Len(struct.site_map) : \E i \in 1..Len(struct.site_map[p].sections) :
             SectionsGet(gen, struct.site_map[p].sections[i]) # <<>>
  \/ "PM" \notin DOMAIN gen.rates
  \/ \E r \in 1..Len(gen.coefficient_rules) : PredicateRaises(gen.coefficient_rules[r], opp)


\* _build_summary, lines 204-207: total *= coeff.multiplier, in list order
RECURSIVE ApplyCoefficients(_, _)
ApplyCoefficients(total, coefficients) ==
  IF coefficients = <<>> THEN total
  ELSE ApplyCoefficients(FMul(total, FFromRatio(Head(coefficients).multiplier.num,
                                           Head(coefficients).multiplier.den)), Tail(coefficients))

\* f"{multiplier:.2f}", in hundredths
Format2f(decimal) == (200 * decimal.num + decimal.den) \div (2 * decimal.den)

NONE_MARKER == <<"- nashi">>

\* "\n".join(f"- {item}" for item in items) or "- なし"
Bullets(items) ==
  IF items = <<>> THEN <<NONE_MARKER>> ELSE [i \in 1..Len(items) |-> <<"- ", items[i]>>]

\* _build_summary: the lines of the Markdown text, block by block
BuildSummary(opp, struct, est) ==
  LET total_base == SumSeq([i \in 1..Len(est.line_items) |-> Cost(est.line_items[i])])
      total == ApplyCoefficients(FFromNat(total_base), est.coefficients)
  IN  [id |-> opp.id,
       goal |-> opp.goal,
       sections |-> SumSeq([p \in 1..Len(struct.site_map) |-> Len(struct.site_map[p].sections)]),
       total_base |-> FTrunc(FFromNat(total_base)),
       total |-> FTrunc(total),
       coefficients |->
         IF est.coefficients = <<>> THEN <<NONE_MARKER>>
         ELSE [i \in 1..Len(est.coefficients) |->
                 <<"- ", est.coefficients[i].name, " x",
                   Format2f(est.coefficients[i].multiplier),
                   " (", est.coefficients[i].reason[1], ")">>],
       uncertains |-> Bullets(struct.uncertains),
       risks |-> Bullets(struct.risks)]

DraftBundle(struct, wire_draft, est, summary_markdown) ==
  [structure |-> struct, wire |-> wire_draft, estimate |-> est,
   summary_markdown |-> summary_markdown]

(***************************************************************************)
(* Object identities.  A mutable object (a model instance or a list) is    *)
(* named by its owner (0: the catalog given to __init__; n >= 1: allocated *)
(* by the n-th call of generate), its type, and the place it was allocated *)
(* for: the preset key, the page and the index inside the page (0: the     *)
(* page-level object itself).                                              *)
(***************************************************************************)
Object(owner, type, preset, page, index) ==
  [owner |-> owner, type |-> type, preset |-> preset, page |-> page, index |-> index]

\* the page specs, their section lists and their section specs held by
\* self._page_presets
CatalogObjects(gen) ==
  UNION {UNION {{Object(0, "SitePageSpec", key, p, 0), Object(0, "list", key, p, 0)}
                \cup {Object(0, "SectionSpec", key, p, i) :
                        i \in 1..Len(gen.page_presets[key][p].sections)} :
                p \in 1..Len(gen.page_presets[key])} :
         key \in DOMAIN gen.page_presets}


\* _build_structure, lines 92-100: the object appended to sections for the
\* i-th section of the p-th preset page: the preset's own SectionSpec when
\* the catalog has no definition for it, a new SectionSpec otherwise
SectionObject(gen, site_type, call, p, i) ==
  LET key == IF PresetsGet(gen, site_type) # <<>> THEN site_type ELSE "LP"  \* lines 86-88
  IN  IF SectionsGet(gen, gen.page_presets[key][p].sections[i]) = <<>>
        THEN Object(0, "SectionSpec", key, p, i)
        ELSE Object(call, "SectionSpec", key, p, i)

\* _build_structure: the objects reachable from the StructureDraft that the
\* given call returns: per page a new SitePageSpec (lines 101-109) holding a
\* new list (line 91) of the section objects
StructureObjects(gen, site_type, call) ==
  LET key == IF PresetsGet(gen, site_type) # <<>> THEN site_type ELSE "LP"  \* lines 86-88
  IN  UNION {{Object(call, "SitePageSpec", key, p, 0), Object(call, "list", key, p, 0)}
             \cup {SectionObject(gen, site_type, call, p, i) :
                     i \in 1..Len(gen.page_presets[key][p].sections)} :
             p \in 1..Len(gen.page_presets[key])}

\* _build_wire: per page a new WirePage (line 135) holding a new list
\* (line 119) of new WireSections (lines 132-134)
WireObjects(struct, call) ==
  UNION {{Object(call, "WirePage", "", p, 0), Object(call, "list", "", p, 0)}
         \cup {Object(call, "WireSection", "", p, i) :
                 i \in 1..Len(struct.site_map[p].sections)} :
         p \in 1..Len(struct.site_map)}

\* _build_estimate: a new list (line 145) of new EstimateLineItems
EstimateObjects(est, call) ==
  {Object(call, "list", "", 0, 0)}
  \cup {Object(call, "EstimateLineItem", "", 0, i) : i \in 1..Len(est.line_items)}


(***************************************************************************)
(* Job records and the two services that run generate for a job:           *)
(* models/job.py, job_store.py, firestore_job_store.py,                    *)
(* services/api/main.py and services/worker/main.py.  Progress is counted  *)
(* in tenths; the timestamps of a record are left out.                     *)
(***************************************************************************)
\* DraftBundle.model_dump
ModelDump(bundle) ==
  [structure |-> bundle.structure,
   wire |-> bundle.wire,
   estimate |-> [line_items |->
                   [i \in 1..Len(bundle.estimate.line_items) |->
                      [item |-> bundle.estimate.line_items[i].item,
                       qty |-> bundle.estimate.line_items[i].qty,
                       hours |-> bundle.estimate.line_items[i].hours,
                       rate |-> bundle.estimate.line_items[i].rate,
                       role |-> bundle.estimate.line_items[i].role,
                       cost |-> Cost(bundle.estimate.line_items[i])]],
                 coefficients |-> bundle.estimate.coefficients,
                 assumptions |-> bundle.estimate.assumptions,
                 currency |-> bundle.estimate.currency],
   summary |-> bundle.summary_markdown]

\* models/job.py, JobOutputs: every field an Optional
JobOutputs(structure_dict, wire_dict, estimate_dict, summary_text) ==
  [notion_url |-> <<>>, figma_wire_json_url |-> <<>>, sheets_url |-> <<>>,
   asana_task_url |-> <<>>, structure |-> structure_dict, wire |-> wire_dict,
   estimate |-> estimate_dict, summary |-> summary_text]


\* BundleOutputs leaving the summary out
BundleOutputsNoSummary(bundle) ==
  LET bundle_dict == ModelDump(bundle)
  IN  JobOutputs(<<bundle_dict.structure>>, <<bundle_dict.wire>>,
                 <<bundle_dict.estimate>>, <<>>)

\* _run_job, lines 111-117; _process_job, lines 151-157
BundleOutputs(bundle) ==
  LET bundle_dict == ModelDump(bundle)
  IN  JobOutputs(<<bundle_dict.structure>>, <<bundle_dict.wire>>,
                 <<bundle_dict.estimate>>, <<bundle_dict.summary>>)

\* models/job.py, JobRecord
JobRecord(id, status, source, record_id, priority) ==
  [id |-> id, status |-> status, progress |-> 0, source |-> source,
   record_id |-> record_id, priority |-> priority, errors |-> <<>>,
   outputs |-> JobOutputs(<<>>, <<>>, <<>>, <<>>)]


\* JobStore.create_job / FirestoreJobStore.create_job; the random suffix of
\* _generate_id is left opaque
CreateJob(source, record_id, priority) ==
  JobRecord(<<"job_", record_id, "_suffix">>, "QUEUED", source, <<record_id>>, priority)

\* JobStore.update_job / FirestoreJobStore.update_job: an argument that is
\* None (<<>>) leaves its field alone
UpdateJob(record, status, progress, outputs, errors) ==
  [record EXCEPT
     !.status = IF status # <<>> THEN status[1] ELSE @,
     !.progress = IF progress # <<>> THEN progress[1] ELSE @,
     !.outputs = IF outputs # <<>> THEN outputs[1] ELSE @,
     !.errors = IF errors # <<>> THEN errors[1] ELSE @]


\* services/api/main.py, line 73: post_processor exists
PostProcessor(env) == env.PROJECT_ID # <<>> /\ env.ENVIRONMENT = "dev"

\* generate_draft, line 85: pubsub_client exists (line 70) and the request
\* goes to the worker through Pub/Sub
Published(env) == env.PROJECT_ID # <<>> /\ env.ENVIRONMENT # "dev"

\* _load_opportunity, lines 238-250: the opportunity the worker makes up
\* when the record has no fixture file
SampleOpportunity(record_id, date_today) ==
  [id |-> record_id, company |-> "Sample Company",
   title |-> <<"S", "a", "m", "p", "l", "e", " ", "O", "p", "p", "o", "r", "t", "u", "n", "i", "t", "y">>,
   goal |-> <<"_ri", "_-", "_do", "_kaku", "_toku">>,
   deadline |-> <<date_today + 60>>, budget_band |-> <<"200-300man">>,
   persona |-> <<"kigyo no keieisha">>,
   must_have |-> <<"takai CVR", "chokkanteki na dosen">>,
   references |-> <<"kigyo A", "kigyo B">>,
   constraints |-> << <<"_tan", "_no", "_ki">> >>,
   assets |-> [copy |-> "False", photo |-> "False", logo |-> "None"],
   notes |-> <<>>]

(***************************************************************************)
(* State.  One generator serves the calls of generate one after the other; *)
(* the wall clock may advance between any two stages of a call.            *)
(***************************************************************************)
VARIABLES
  generator,        \* the catalog fields of the ProposalGenerator
  context_factory,  \* <<>>: default_generation_context; <<d>>: a factory injecting today = d
  opportunity,      \* the argument of generate
  clock,            \* the wall-clock date, date.today()
  pc,               \* the stage the current call of generate is at
  remaining,        \* number of calls of generate still to be made
  context,          \* local of generate: Optional[GenerationContext]
  site_type,        \* local of generate
  structure,        \* local of generate
  wire,             \* local of generate
  estimate,         \* local of generate
  returned,         \* the bundles returned so far, in call order
  objects,          \* per call of generate, in call order: the objects reachable from
                    \* its context and its outputs (none once the call has raised)
  environment,      \* ENVIRONMENT and PROJECT_ID of the API service
  request,          \* the GenerateDraftRequest sent to the API
  fixtures,         \* the files of data/opportunities
  job,              \* the record of the request's job in the job store (Optional)
  job_pc,           \* where the processing of the job is at
  exc,              \* the exception being handled by the processing of the job (Optional)
  post_outputs,     \* local of the processing of the job: the keys of the dictionary
                    \* returned by process_draft (Optional)
  message,          \* the Pub/Sub push message last received by the worker (Optional)
  response          \* the HTTP status the worker answered it with (Optional)

job_vars == <<environment, request, fixtures, job, job_pc, exc, post_outputs, message, response>>

vars == <<generator, context_factory, opportunity, clock, pc, remaining, context,
          site_type, structure, wire, estimate, returned, objects, job_vars>>

(***************************************************************************)
(* Inputs                                                                  *)
(***************************************************************************)
\* "新LP制作"
TitleNewLp == <<"_shin", "L", "P", "_sei2", "_saku">>

\* "コーポレートサイト刷新", a title without a landing-page marker
TitleCorporate == <<"_ko", "_-", "_po", "_re", "_-", "_to">>

\* "リード獲得"
GoalLead == <<"_ri", "_-", "_do", "_kaku", "_toku">>

\* "採用強化"
GoalRecruit == <<"_sai", "_you", "_kyou", "_ka3">>

\* "ブランド認知"
GoalBrand == <<"_bu", "_ra", "_n", "_do", "_nin", "_chi">>

\* "一部CMS化"
NotesCms == <<"_ichi", "_bu2", "C", "M", "S", "_ka3">>

\* "ブランドカラー厳守"
ConstraintBrandColor == <<"_bu", "_ra", "_n", "_do", "_ka", "_ra", "_-", "_gen", "_shu">>

\* "ブランド", "カラー厳守": two constraints, neither holding the marker
ConstraintsSplitMarker == <<SubSeq(ConstraintBrandColor, 1, 4), SubSeq(ConstraintBrandColor, 5, 9)>>

Opportunity(title, goal, deadline, budget_band, persona, must_have, references, constraints, assets, notes) ==
  [id |-> "OPP-2025-001", company |-> "dot.homes", title |-> title, goal |-> goal,
   deadline |-> deadline, budget_band |-> budget_band, persona |-> persona,
   must_have |-> must_have, references |-> references, constraints |-> constraints,
   assets |-> assets, notes |-> notes]

Assets(copy, photo, logo) == [copy |-> copy, photo |-> photo, logo |-> logo]

TriState == {"None", "True", "False"}

\* all texts made of at most n of the given tokens
RECURSIVE Texts(_, _)
Texts(tokens, n) ==
  IF n = 0 THEN {<<>>}
  ELSE Texts(tokens, n - 1) \cup {t \o tok : t \in Texts(tokens, n - 1), tok \in tokens}


DefaultGenerator ==
  ProposalGenerator(DEFAULT_PAGE_PRESETS, DEFAULT_SECTIONS, DEFAULT_RATES,
                    DEFAULT_ASSUMPTIONS, DEFAULT_COEFFICIENT_RULES)

Restrict(f, S) == [k \in S |-> f[k]]

\* a section kind without a copy strategy, and a template naming a field
\* that _build_wire does not supply
SectionsCustom ==
  Restrict(DEFAULT_SECTIONS, DOMAIN DEFAULT_SECTIONS \ {<<"FAQ", "Accordion">>})
  @@ (<<"Gallery", "Masonry">> :>
        SectionDefinition("Gallery", "Gallery", "Masonry", 9, <<"hint: gallery">>,
                          [caption |-> Template("{company}", {"company"})]))

SectionsBadTemplate ==
  (<<"Hero", "Center">> :>
        SectionDefinition("Hero", "Hero", "Center", 15, <<"hint: hero">>,
                          [headline |-> Template("{persona}", {"persona"})]))
  @@ DEFAULT_SECTIONS


PresetsTwoPages ==
  ("LP" :>
     <<SitePageSpec(T.top, "LP", <<>>,
         <<SectionSpec("Hero", "Center", <<>>),
           SectionSpec("FAQ", "Accordion", <<>>),
           SectionSpec("Gallery", "Masonry", <<>>)>>, <<>>),
       SitePageSpec(T.contact, "LP", <<>>,
         <<SectionSpec("Map", "Embed", <<>>),
           SectionSpec("Form", "ContactBasic", <<>>)>>, <<>>)>>)
  @@ ("Corporate" :> <<>>)

\* a page "top" with two Form sections and no CTA section
PresetsTopForm ==
  ("LP" :>
     <<SitePageSpec(T.top, "LP", <<>>,
         <<SectionSpec("Form", "ContactBasic", <<>>),
           SectionSpec("Hero", "Center", <<>>),
           SectionSpec("Form", "ContactBasic", <<>>)>>, <<>>)>>)


InitCall ==
  /\ pc = "idle"
  /\ context = <<>>
  /\ site_type = <<>>
  /\ structure = <<>>
  /\ wire = <<>>
  /\ estimate = <<>>
  /\ returned = <<>>
  /\ objects = <<>>

\* services/api/main.py, GenerateDraftRequest
GenerateDraftRequest(source, record_id, priority, payload) ==
  [source |-> source, record_id |-> record_id, priority |-> priority, payload |-> payload]

RecordId == "OPP-2025-001"

\* a file <record_id>.json of data/opportunities: data is <<opportunity>>, or
\* <<>> when the content does not validate as an Opportunity
File(record_id, data) == [record_id |-> record_id, data |-> data]

\* deadlines around the threshold, injected and wall-clock dates
InitDates ==
  /\ generator = DefaultGenerator
  /\ context_factory \in {<<>>} \cup {<<d>> : d \in 0..MaxDay}
  /\ clock \in 0..MaxDay
  /\ remaining = MaxCalls
  /\ \E deadline \in {<<>>, <<0>>, <<ShortDeadlineDays>>, <<ShortDeadlineDays + 1>>},
        copy \in TriState :
        opportunity = Opportunity(TitleNewLp, GoalLead, deadline, <<>>, <<>>, <<>>, <<>>, <<>>,
                                  Assets(copy, "None", "None"), <<>>)

\* every combination of the optional fields
InitOptional ==
  /\ generator = DefaultGenerator
  /\ context_factory = <<>>
  /\ clock = MaxDay
  /\ remaining = 1
  /\ \E deadline \in {<<>>, <<ShortDeadlineDays>>},
        budget_band \in {<<>>, <<"~600man">>},
        persona \in {<<>>, <<"B2B joho system">>},
        notes \in {<<>>, <<<<>>>>, <<NotesCms>>},
        must_have \in {<<>>, <<"toiawase form", "jisseki keisai", "GA4 keisoku", "CMS">>},
        references \in {<<>>, <<"https://example.com">>},
        constraints \in {<<>>, <<ConstraintBrandColor>>, ConstraintsSplitMarker},
        copy \in TriState, photo \in TriState, logo \in TriState :
        opportunity = Opportunity(TitleCorporate, GoalRecruit, deadline, budget_band, persona,
                                  must_have, references, constraints,
                                  Assets(copy, photo, logo), notes)

\* notes spelling "cms" in every letter case, and characters whose upper
\* case is or contains "S"
InitNotes ==
  /\ generator = DefaultGenerator
  /\ context_factory = <<>>
  /\ clock = MaxDay
  /\ remaining = 1
  /\ \E notes \in Texts({<<"c", "m">>, <<"C", "M">>, <<"c", "M">>, <<"m">>, <<"s">>, <<"S">>,
                          <<"_eszett">>, <<"_long_s">>, <<"_ka3">>}, MaxTokens) :
        opportunity = Opportunity(TitleCorporate, GoalRecruit, <<>>, <<>>, <<>>, <<>>, <<>>, <<>>,
                                  Assets("None", "None", "None"), <<notes>>)

\* catalogs other than the default one
InitCatalogs ==
  /\ \E page_presets \in {DEFAULT_PAGE_PRESETS, PresetsTopForm, PresetsTwoPages,
                           Restrict(DEFAULT_PAGE_PRESETS, {"LP"}),
                           Restrict(DEFAULT_PAGE_PRESETS, {"Corporate"}),
                           ("LP" :> <<>>)},
        sections \in {DEFAULT_SECTIONS, SectionsCustom, SectionsBadTemplate,
                       Restrict(DEFAULT_SECTIONS, {})},
        rates \in {DEFAULT_RATES, Restrict(DEFAULT_RATES, {"IA", "PM"})},
        rules \in {<<>>} \cup {r \in [1..3 -> Range(DEFAULT_COEFFICIENT_RULES)] :
                                  Range(r) = Range(DEFAULT_COEFFICIENT_RULES)} :
        generator = ProposalGenerator(page_presets, sections, rates, DEFAULT_ASSUMPTIONS, rules)
  /\ context_factory = <<>>
  /\ clock = MaxDay
  /\ remaining = 1
  /\ \E goal \in {GoalLead, GoalRecruit}, deadline \in {<<>>, <<0>>},
        copy \in {"None", "False"}, notes \in {<<>>, <<NotesCms>>} :
        opportunity = Opportunity(TitleCorporate, goal, deadline, <<>>, <<>>, <<>>, <<>>, <<>>,
                                  Assets(copy, "None", "None"), notes)

\* titles and goals for the classifier
InitClassifier ==
  /\ generator = DefaultGenerator
  /\ context_factory = <<>>
  /\ clock = MaxDay
  /\ remaining = 1
  /\ \E title \in Texts({<<"l">>, <<"p">>, <<"L", "P">>, T.landing,
                          <<"_ra", "_n", "_de", "_i">>, <<"_n", "_gu">>, <<"_sei2", "_saku">>},
                         MaxTokens) \cup {TitleNewLp, TitleCorporate},
        goal \in Texts({T.lead_kana, <<"_ri", "_-">>, <<"_do">>, T.lead, <<"L", "e", "a", "D">>,
                         <<"l", "e">>, T.recruit, <<"_sai">>, <<"_you">>, <<"_kaku", "_toku">>},
                        MaxTokens) \cup {GoalRecruit, GoalBrand} :
        /\ title \in {TitleNewLp, TitleCorporate, <<>>}
             \/ goal \in {GoalLead, GoalRecruit, GoalBrand, <<>>}
        /\ opportunity = Opportunity(title, goal, <<>>, <<>>, <<>>, <<>>, <<>>, <<>>,
                                     Assets("None", "None", "None"), <<>>)

\* generate is called directly: no request reaches the services
InitNoJob ==
  /\ environment = [ENVIRONMENT |-> "dev", PROJECT_ID |-> <<>>]
  /\ request = GenerateDraftRequest("manual", RecordId, <<>>, <<>>)
  /\ fixtures = {}
  /\ job = <<>>
  /\ job_pc = "off"
  /\ exc = <<>>
  /\ post_outputs = <<>>
  /\ message = <<>>
  /\ response = <<>>

\* a request to POST /v1/drafts:generate is about to arrive; opportunity is
\* the one the request designates until the job has loaded its own
InitJob ==
  /\ generator = DefaultGenerator
  /\ context_factory = <<>>
  /\ clock = MaxDay
  /\ remaining = 0
  /\ environment \in [ENVIRONMENT : {"dev", "prod"}, PROJECT_ID : {<<>>, <<"project">>}]
  /\ \E deadline \in {<<>>, <<0>>, <<ShortDeadlineDays>>, <<ShortDeadlineDays + 1>>},
        copy \in TriState :
        /\ opportunity = Opportunity(TitleNewLp, GoalLead, deadline, <<>>, <<>>, <<>>, <<>>, <<>>,
                                     Assets(copy, "None", "None"), <<>>)
        /\ request \in {GenerateDraftRequest("manual", RecordId, <<>>, payload) :
                           payload \in {<<>>, <<opportunity>>}}
        /\ fixtures \in {{}, {File(RecordId, <<opportunity>>)}, {File(RecordId, <<>>)}}
  /\ job = <<>>
  /\ job_pc = "request"
  /\ exc = <<>>
  /\ post_outputs = <<>>
  /\ message = <<>>
  /\ response = <<>>

Init ==
  InitCall /\ (((InitDates \/ InitOptional \/ InitNotes \/ InitCatalogs \/ InitClassifier)
                 /\ InitNoJob)
               \/ InitJob)

(***************************************************************************)
(* generate, stage by stage                                                *)
(***************************************************************************)
\* context_factory()
ContextFactory(cf, date_today) ==
  GenerationContext(IF cf = <<>> THEN date_today ELSE cf[1], <<>>)

\* generate, line 65
Generate ==
  /\ pc \in {"idle", "raised"}
  /\ remaining > 0
  /\ remaining' = remaining - 1
  /\ context' = <<ContextFactory(context_factory, clock)>>
  /\ site_type' = <<>>
  /\ structure' = <<>>
  /\ wire' = <<>>
  /\ estimate' = <<>>
  /\ pc' = "classify"
  /\ objects' = Append(objects, {Object(Len(objects) + 1, "GenerationContext", "", 0, 0)})
  /\ UNCHANGED <<generator, context_factory, opportunity, clock, returned>>
  /\ UNCHANGED job_vars

\* generate, line 66
Classify ==
  /\ pc = "classify"
  /\ site_type' = <<InferSiteType(opportunity)>>
  /\ pc' = "structure"
  /\ UNCHANGED <<generator, context_factory, opportunity, clock, remaining, context,
                 structure, wire, estimate, returned, objects>>
  /\ UNCHANGED job_vars

\* Structure leaving context.structure unset
StructureContextUnset ==
  /\ pc = "structure"
  /\ IF BuildStructureRaises(generator, opportunity, site_type[1])
       THEN /\ pc' = "raised"
            /\ objects' = [objects EXCEPT ![Len(objects)] = {}]
            /\ UNCHANGED structure
       ELSE /\ structure' = <<BuildStructure(generator, opportunity, site_type[1], clock)>>
            /\ objects' = [objects EXCEPT ![Len(objects)] =
                             @ \cup StructureObjects(generator, site_type[1], Len(objects))]
            /\ pc' = "wire"
  /\ UNCHANGED <<generator, context_factory, opportunity, clock, remaining, site_type,
                 wire, estimate, returned, context>>
  /\ UNCHANGED job_vars

\* generate, lines 67-68
Structure ==
  /\ pc = "structure"
  /\ IF BuildStructureRaises(generator, opportunity, site_type[1])
       THEN /\ pc' = "raised"
            /\ objects' = [objects EXCEPT ![Len(objects)] = {}]
            /\ UNCHANGED <<structure, context>>
       ELSE /\ structure' = <<BuildStructure(generator, opportunity, site_type[1], clock)>>
            /\ context' = <<GenerationContext(context[1].today, structure')>>
            /\ objects' = [objects EXCEPT ![Len(objects)] =
                             @ \cup StructureObjects(generator, site_type[1], Len(objects))]
            /\ pc' = "wire"
  /\ UNCHANGED <<generator, context_factory, opportunity, clock, remaining, site_type,
                 wire, estimate, returned>>
  /\ UNCHANGED job_vars

\* generate, line 69
Wire ==
  /\ pc = "wire"
  /\ IF BuildWireRaises(generator, opportunity, structure[1])
       THEN /\ pc' = "raised"
            /\ objects' = [objects EXCEPT ![Len(objects)] = {}]
            /\ UNCHANGED wire
       ELSE /\ wire' = <<BuildWire(generator, opportunity, structure[1])>>
            /\ objects' = [objects EXCEPT ![Len(objects)] =
                             @ \cup WireObjects(structure[1], Len(objects))]
            /\ pc' = "estimate"
  /\ UNCHANGED <<generator, context_factory, opportunity, clock, remaining, context,
                 site_type, structure, estimate, returned>>
  /\ UNCHANGED job_vars

\* Estimate appending to the catalog's assumption list in place, instead of
\* to a copy of it
EstimateSharingAssumptions ==
  /\ pc = "estimate"
  /\ IF BuildEstimateRaises(generator, opportunity, structure[1])
       THEN /\ pc' = "raised"
            /\ objects' = [objects EXCEPT ![Len(objects)] = {}]
            /\ UNCHANGED <<estimate, generator>>
       ELSE /\ estimate' = <<BuildEstimate(generator, opportunity, structure[1], context[1])>>
            /\ generator' = [generator EXCEPT !.assumptions = estimate'[1].assumptions]
            /\ objects' = [objects EXCEPT ![Len(objects)] =
                             @ \cup EstimateObjects(estimate'[1], Len(objects))]
            /\ pc' = "summary"
  /\ UNCHANGED <<context_factory, opportunity, clock, remaining, context,
                 site_type, structure, wire, returned>>
  /\ UNCHANGED job_vars

\* generate, line 70
Estimate ==
  /\ pc = "estimate"
  /\ IF BuildEstimateRaises(generator, opportunity, structure[1])
       THEN /\ pc' = "raised"
            /\ objects' = [objects EXCEPT ![Len(objects)] = {}]
            /\ UNCHANGED estimate
       ELSE /\ estimate' = <<BuildEstimate(generator, opportunity, structure[1], context[1])>>
            /\ objects' = [objects EXCEPT ![Len(objects)] =
                             @ \cup EstimateObjects(estimate'[1], Len(objects))]
            /\ pc' = "summary"
  /\ UNCHANGED <<generator, context_factory, opportunity, clock, remaining, context,
                 site_type, structure, wire, returned>>
  /\ UNCHANGED job_vars

\* generate, lines 71-72
Summary ==
  /\ pc = "summary"
  /\ returned' = Append(returned,
                        DraftBundle(structure[1], wire[1], estimate[1],
                                    BuildSummary(opportunity, structure[1], estimate[1])))
  /\ pc' = "idle"
  /\ UNCHANGED <<generator, context_factory, opportunity, clock, remaining, context,
                 site_type, structure, wire, estimate, objects>>
  /\ UNCHANGED job_vars

\* the wall clock passes midnight
Tick ==
  /\ clock < MaxDay
  /\ clock' = clock + 1
  /\ UNCHANGED <<generator, context_factory, opportunity, pc, remaining, context,
                 site_type, structure, wire, estimate, returned, objects>>
  /\ UNCHANGED job_vars

(***************************************************************************)
(* The API service and the worker service                                  *)
(***************************************************************************)
call_vars == <<generator, context_factory, clock, pc, context, site_type, structure,
               wire, estimate, returned, objects>>

\* LocalOpportunityRepository.get: FileNotFoundError, or the ValidationError
\* of Opportunity.model_validate
RepositoryGetRaises(files, record_id) ==
  \A f \in files : f.record_id = record_id => f.data = <<>>

RepositoryGet(files, record_id) ==
  (CHOOSE f \in files : f.record_id = record_id).data[1]


\* PostProcessor.process_draft with options = {}: only the Figma feed is
\* generated; an exception is caught and recorded under "error".  The keys
\* of the dictionary returned.
ProcessDraft(succeeded) == IF succeeded THEN {"figma_url"} ELSE {"error"}

\* POST /v1/drafts:generate: generate_draft.  Publishing the request to
\* Pub/Sub can fail, and the endpoint then raises with the job created.
GenerateDraft ==
  /\ job_pc = "request"
  /\ job' = <<CreateJob(request.source, request.record_id, request.priority)>>
  /\ IF Published(environment)
       THEN job_pc' \in {"published", "unpublished"}
       ELSE job_pc' = "scheduled"
  /\ UNCHANGED <<call_vars, message, response, post_outputs, opportunity, remaining, environment, request, fixtures, exc>>

\* _run_job, line 107
RunJobStart ==
  /\ job_pc = "scheduled"
  /\ job' = <<UpdateJob(job[1], <<"IN_PROGRESS">>, <<1>>, <<>>, <<>>)>>
  /\ job_pc' = "run_load"
  /\ UNCHANGED <<call_vars, message, response, post_outputs, opportunity, remaining, environment, request, fixtures, exc>>

\* _run_job, line 109, up to the call of generate of line 110
RunJobLoad ==
  /\ job_pc = "run_load"
  /\ IF request.payload = <<>> /\ RepositoryGetRaises(fixtures, request.record_id)
       THEN /\ exc' = <<"Opportunity payload not found">>
            /\ job_pc' = "run_except"
            /\ UNCHANGED <<opportunity, remaining>>
       ELSE /\ opportunity' = IF request.payload # <<>> THEN request.payload[1]
                               ELSE RepositoryGet(fixtures, request.record_id)
            /\ remaining' = 1
            /\ job_pc' = "run_generate"
            /\ UNCHANGED exc
  /\ UNCHANGED <<call_vars, message, response, post_outputs, environment, request, fixtures, job>>

\* _run_job, lines 110-121: generate has returned or raised
RunJobComplete ==
  /\ job_pc = "run_generate"
  /\ remaining = 0
  /\ pc \in {"idle", "raised"}
  /\ IF pc = "raised"
       THEN /\ exc' = <<"generate">>
            /\ job_pc' = "run_except"
            /\ UNCHANGED job
       ELSE /\ job' = <<UpdateJob(job[1], <<"COMPLETED">>, <<10>>,
                                  <<BundleOutputs(returned[Len(returned)])>>, <<>>)>>
            /\ job_pc' = IF PostProcessor(environment) THEN "run_post" ELSE "done"
            /\ UNCHANGED exc
  /\ UNCHANGED <<call_vars, message, response, post_outputs, opportunity, remaining, environment, request, fixtures>>

\* RunJobPostProcess in which a failure reaches the handler of line 136
RunJobPostProcessFatal ==
  /\ job_pc = "run_post"
  /\ \E succeeded \in BOOLEAN :
        /\ post_outputs' = <<ProcessDraft(succeeded)>>
        /\ IF succeeded THEN job_pc' = "done" /\ UNCHANGED exc
           ELSE job_pc' = "run_except" /\ exc' = <<"post-processing failed">>
  /\ UNCHANGED <<call_vars, message, response, opportunity, remaining, environment, request, fixtures, job>>

\* _run_job, lines 121-134: post-processing succeeds, or fails and is ignored
RunJobPostProcess ==
  /\ job_pc = "run_post"
  /\ \E succeeded \in BOOLEAN : post_outputs' = <<ProcessDraft(succeeded)>>
  /\ job_pc' = "done"
  /\ UNCHANGED <<call_vars, message, response, opportunity, remaining, environment, request, fixtures, job, exc>>

\* _run_job, lines 136-137
RunJobExcept ==
  /\ job_pc = "run_except"
  /\ job' = <<UpdateJob(job[1], <<"FAILED">>, <<10>>, <<>>, <<<<exc[1]>>>>)>>
  /\ exc' = <<>>
  /\ job_pc' = "done"
  /\ UNCHANGED <<call_vars, message, response, post_outputs, opportunity, remaining, environment, request, fixtures>>

\* a push message of Pub/Sub: data is <<>> when the message has no data,
\* and the decoded payload otherwise, a field of which is <<>> when missing
PubSubMessage(data) == [data |-> data]

\* publish_draft_request: the message published for the job
DraftRequestMessage(record) ==
  PubSubMessage(<<[job_id |-> <<record.id>>, source |-> <<record.source>>,
                   record_id |-> record.record_id]>>)

\* process_draft_request, lines 64-79: the status of the HTTPException
\* raised for the message, if any
MessageRejected(msg) ==
  IF msg.data = <<>> THEN <<400>>
  ELSE IF msg.data[1].job_id = <<>> \/ msg.data[1].source = <<>> \/ msg.data[1].record_id = <<>>
         THEN <<400>>
         ELSE <<>>

\* POST /v1/worker/process: process_draft_request up to the call of
\* _process_job.  The push is the message of the job, or (once) the same
\* message without data or without one of its fields.  The HTTPException of lines
\* 69 and 76 is raised inside the try block and is an Exception: the
\* handler of lines 96-102 answers it with status 500.
ProcessDraftRequest ==
  /\ job_pc = "published"
  /\ \E msg \in {DraftRequestMessage(job[1]), PubSubMessage(<<>>)}
                \cup {PubSubMessage(<<[DraftRequestMessage(job[1]).data[1] EXCEPT ![f] = <<>>]>>) :
                        f \in {"job_id", "source", "record_id"}} :
        /\ message' = <<msg>>
        /\ IF MessageRejected(msg) # <<>>
             THEN /\ message = <<>>
                  /\ response' = <<500>>
                  /\ job_pc' = "published"
             ELSE /\ response' = <<>>
                  /\ job_pc' = "process_start"
  /\ UNCHANGED <<call_vars, post_outputs, opportunity, remaining, environment, request,
                 fixtures, job, exc>>

\* _process_job, line 115
ProcessJobStart ==
  /\ job_pc = "process_start"
  /\ job' = <<UpdateJob(job[1], <<"IN_PROGRESS">>, <<1>>, <<>>, <<>>)>>
  /\ job_pc' = "process_load"
  /\ UNCHANGED <<call_vars, message, response, post_outputs, opportunity, remaining, environment, request, fixtures, exc>>

\* _process_job, lines 119-131, up to the call of generate of line 134;
\* _load_opportunity raises the ValidationError of model_validate_json, or
\* returns the fixture, or the sample opportunity when there is no fixture
ProcessJobLoad ==
  /\ job_pc = "process_load"
  /\ IF \E f \in fixtures : f.record_id = request.record_id /\ f.data = <<>>
       THEN /\ exc' = <<"validation error for Opportunity">>
            /\ job_pc' = "process_except"
            /\ UNCHANGED <<opportunity, remaining, job>>
       ELSE /\ opportunity' = IF \E f \in fixtures : f.record_id = request.record_id
                               THEN RepositoryGet(fixtures, request.record_id)
                               ELSE SampleOpportunity(request.record_id, clock)
            /\ job' = <<UpdateJob(job[1], <<>>, <<3>>, <<>>, <<>>)>>
            /\ remaining' = 1
            /\ job_pc' = "process_generate"
            /\ UNCHANGED exc
  /\ UNCHANGED <<call_vars, message, response, post_outputs, environment, request, fixtures>>

\* _process_job, lines 134-148: generate has returned or raised
ProcessJobGenerated ==
  /\ job_pc = "process_generate"
  /\ remaining = 0
  /\ pc \in {"idle", "raised"}
  /\ IF pc = "raised"
       THEN /\ exc' = <<"generate">>
            /\ job_pc' = "process_except"
            /\ UNCHANGED job
       ELSE /\ job' = <<UpdateJob(job[1], <<>>, <<8>>, <<>>, <<>>)>>
            /\ job_pc' = "process_complete"
            /\ UNCHANGED exc
  /\ UNCHANGED <<call_vars, message, response, post_outputs, opportunity, remaining, environment, request, fixtures>>

\* _process_job, lines 151-162
ProcessJobComplete ==
  /\ job_pc = "process_complete"
  /\ job' = <<UpdateJob(job[1], <<"COMPLETED">>, <<10>>,
                         <<BundleOutputs(returned[Len(returned)])>>, <<>>)>>
  /\ job_pc' = "process_post"
  /\ UNCHANGED <<call_vars, message, response, post_outputs, opportunity, remaining, environment, request, fixtures, exc>>

\* _process_job, lines 165-184: post-processing succeeds, or fails and is ignored
ProcessJobPostProcess ==
  /\ job_pc = "process_post"
  /\ \E succeeded \in BOOLEAN : post_outputs' = <<ProcessDraft(succeeded)>>
  /\ job_pc' = "process_publish"
  /\ UNCHANGED <<call_vars, message, response, opportunity, remaining, environment, request, fixtures, job, exc>>

\* _process_job, lines 187-193: publishing the completion event can fail
ProcessJobPublish ==
  /\ job_pc = "process_publish"
  /\ \E succeeded \in BOOLEAN :
        IF succeeded
          THEN job_pc' = "done" /\ response' = <<200>> /\ UNCHANGED exc
          ELSE job_pc' = "process_except" /\ exc' = <<"publish failed">> /\ UNCHANGED response
  /\ UNCHANGED <<call_vars, message, post_outputs, opportunity, remaining, environment, request, fixtures, job>>

\* _process_job, lines 195-210: the job is marked failed and the exception
\* is raised again; process_draft_request, lines 96-102, answers 500
ProcessJobExcept ==
  /\ job_pc = "process_except"
  /\ job' = <<UpdateJob(job[1], <<"FAILED">>, <<10>>, <<>>, <<<<exc[1]>>>>)>>
  /\ response' = <<500>>
  /\ job_pc' = "raised"
  /\ UNCHANGED <<call_vars, message, post_outputs, opportunity, remaining, environment, request, fixtures, exc>>

Next ==
  \/ Generate \/ Classify \/ Structure \/ Wire \/ Estimate \/ Summary \/ Tick
  \/ GenerateDraft \/ RunJobStart \/ RunJobLoad \/ RunJobComplete \/ RunJobPostProcess
  \/ RunJobExcept \/ ProcessDraftRequest \/ ProcessJobStart \/ ProcessJobLoad \/ ProcessJobGenerated
  \/ ProcessJobComplete \/ ProcessJobPostProcess \/ ProcessJobPublish \/ ProcessJobExcept

Spec == Init /\ [][Next]_vars

\* every step that can be taken is eventually taken: the background task
\* that was scheduled runs, the message that was published is pushed to the
\* worker, and a processing that has started runs to its end
LiveSpec == Spec /\ WF_vars(Next)


(***************************************************************************)
(* Properties                                                              *)
(***************************************************************************)
\* {coeff.name for coeff in bundle.estimate.coefficients}
CoefficientNames(est) == {est.coefficients[i].name : i \in 1..Len(est.coefficients)}

\* C1: the estimate of every returned bundle has exactly 1 + D + 1 line
\* items, D being the number of sections of the bundle's structure whose
\* kind/variant key is defined in the catalog; the first item has role IA,
\* the last has role PM, and the D items between them are the Design items
\* of the defined sections in page-then-section order.
C1_LineItemCount ==
  \A n \in 1..Len(returned) :
     LET site_map == returned[n].structure.site_map
         items == returned[n].estimate.line_items
         IsDefined(p, i) == <<site_map[p].sections[i].kind, site_map[p].sections[i].variant>>
                              \in DOMAIN generator.sections
         DefinedOn(p, upto) == Cardinality({i \in 1..upto : IsDefined(p, i)})
         D == SumSeq([p \in 1..Len(site_map) |-> DefinedOn(p, Len(site_map[p].sections))])
         Rank(p, i) == SumSeq([q \in 1..(p - 1) |-> DefinedOn(q, Len(site_map[q].sections))])
                       + DefinedOn(p, i)
     IN  /\ Len(items) = 1 + D + 1
         /\ items[1].role = "IA"
         /\ items[Len(items)].role = "PM"
         /\ \A k \in 2..(Len(items) - 1) : items[k].role = "Design"
         /\ \A p \in 1..Len(site_map) : \A i \in 1..Len(site_map[p].sections) :
               IsDefined(p, i) =>
                  items[1 + Rank(p, i)].item =
                     <<TitleCase(site_map[p].page_id), ": ",
                       generator.sections[<<site_map[p].sections[i].kind,
                                            site_map[p].sections[i].variant>>].label>>

\* a returned bundle of two pages with defined and undefined sections on both
C1_Witness ==
  /\ returned # <<>>
  /\ Len(returned[1].structure.site_map) = 2
  /\ Len(returned[1].estimate.line_items) = 5
  /\ returned[1].estimate.line_items[4].item = <<<<"C", "o", "n", "t", "a", "c", "t">>, ": ", "Form">>

\* C2: with the default coefficient rules, the short-deadline coefficient is
\* in estimate.coefficients iff the deadline is present and fewer than 45
\* days after the today of the call's context; a deadline exactly 45 days
\* away does not trigger it and a deadline in the past does.
C2_ShortDeadlineCoefficient ==
  (estimate # <<>> /\ generator.coefficient_rules = DEFAULT_COEFFICIENT_RULES) =>
     LET present == COEFF.short_deadline \in CoefficientNames(estimate[1])
         today == context[1].today
     IN  /\ present <=> (opportunity.deadline # <<>> /\ opportunity.deadline[1] - today < 45)
         /\ (opportunity.deadline # <<>> /\ opportunity.deadline[1] - today = 45) => ~present
         /\ (opportunity.deadline # <<>> /\ opportunity.deadline[1] < today) => present

\* an estimate built for a deadline in the past of an injected today that
\* is not the wall-clock date
C2_Witness ==
  /\ estimate # <<>>
  /\ generator.coefficient_rules = DEFAULT_COEFFICIENT_RULES
  /\ opportunity.deadline # <<>>
  /\ opportunity.deadline[1] < context[1].today
  /\ context[1].today # clock
  /\ COEFF.short_deadline \in CoefficientNames(estimate[1])

\* C3: with the default coefficient rules, the copy-unavailable coefficient
\* is in estimate.coefficients iff assets.copy is exactly false; it is absent
\* when assets.copy is unknown (None) or true.
C3_CopyCoefficient ==
  (estimate # <<>> /\ generator.coefficient_rules = DEFAULT_COEFFICIENT_RULES) =>
     /\ COEFF.copy_missing \in CoefficientNames(estimate[1])
          <=> opportunity.assets.copy = "False"
     /\ opportunity.assets.copy \in {"None", "True"}
          => COEFF.copy_missing \notin CoefficientNames(estimate[1])

\* an estimate built for unknown copy assets, without the coefficient
C3_Witness ==
  /\ estimate # <<>>
  /\ generator.coefficient_rules = DEFAULT_COEFFICIENT_RULES
  /\ opportunity.assets.copy = "None"
  /\ COEFF.copy_missing \notin CoefficientNames(estimate[1])


\* C4: two calls of generate on one generator with the same opportunity and
\* the same injected today return identical summary text and identical
\* line-item costs, whatever the wall-clock date of each call.
C4_IdempotentUnderFixedContext ==
  context_factory # <<>> =>
     \A i \in 1..Len(returned) : \A j \in 1..Len(returned) :
        /\ returned[i].summary_markdown = returned[j].summary_markdown
        /\ [k \in 1..Len(returned[i].estimate.line_items) |->
              Cost(returned[i].estimate.line_items[k])]
           = [k \in 1..Len(returned[j].estimate.line_items) |->
              Cost(returned[j].estimate.line_items[k])]

\* C5: within one call, the schedule-pressure risk is in structure.risks iff
\* the deadline is present and fewer than 45 days after the today of the
\* call's context; hence, with the default rules, the risk is present
\* exactly when the short-deadline coefficient is.
C5_ScheduleRiskFollowsContext ==
  structure # <<>> =>
     LET risk == RISK.schedule \in Range(structure[1].risks)
     IN  /\ risk <=> (opportunity.deadline # <<>>
                      /\ opportunity.deadline[1] - context[1].today < 45)
         /\ (estimate # <<>> /\ generator.coefficient_rules = DEFAULT_COEFFICIENT_RULES)
              => (risk <=> COEFF.short_deadline \in CoefficientNames(estimate[1]))

\* C6: in the summary of every returned bundle, the base total is the sum
\* of the line-item costs and the adjusted total is the base total times
\* the multiplier of every coefficient of the estimate, truncated to an
\* integer; it is the same for every order of the coefficients, and it
\* equals the base total when there is no coefficient.
C6_TotalIdentity ==
  \A n \in 1..Len(returned) :
     LET est == returned[n].estimate
         summary == returned[n].summary_markdown
         base == SumSeq([k \in 1..Len(est.line_items) |-> Cost(est.line_items[k])])
         RECURSIVE MulAll(_, _)
         MulAll(b, cs) ==
           IF cs = <<>> THEN b
           ELSE MulAll(BigMul(b, BigFromNat(Head(cs).multiplier.num)), Tail(cs))
         RECURSIVE DivAll(_, _)
         DivAll(b, cs) ==
           IF cs = <<>> THEN b
           ELSE DivAll(BigDivSmall(b, Head(cs).multiplier.den).q, Tail(cs))
         exact == BigToNat(DivAll(MulAll(BigFromNat(base), est.coefficients), est.coefficients))
         orders == {o \in [1..Len(est.coefficients) -> 1..Len(est.coefficients)] :
                      Range(o) = 1..Len(est.coefficients)}
     IN  /\ summary.total_base = base
         /\ summary.total = exact
         /\ \A o \in orders :
               FTrunc(ApplyCoefficients(FFromNat(base),
                        [k \in 1..Len(est.coefficients) |-> est.coefficients[o[k]]]))
               = summary.total
         /\ est.coefficients = <<>> => summary.total = summary.total_base


\* C7: with the default catalog, every returned bundle has a structure of
\* at least one page, a wire of at least one page and an estimate with an
\* IA line item and a PM line item.
C7_NonEmptyBundle ==
  generator = DefaultGenerator =>
     \A n \in 1..Len(returned) :
        LET items == returned[n].estimate.line_items
        IN  /\ Len(returned[n].structure.site_map) >= 1
            /\ Len(returned[n].wire.pages) >= 1
            /\ \E k \in 1..Len(items) : items[k].role = "IA"
            /\ \E k \in 1..Len(items) : items[k].role = "PM"

\* a bundle returned by the default generator for the Corporate preset
C7_Witness ==
  /\ generator = DefaultGenerator
  /\ returned # <<>>
  /\ site_type = <<"Corporate">>
  /\ returned[1].structure.site_map[1].page_id = T.home

\* C8: the classifier is first-match-wins: LP if the title contains "lp" in
\* any letter case or the landing marker; else LP if the goal contains the
\* lead marker or "lead" in any letter case; else Corporate if the goal
\* contains the recruiting marker; else LP.  So Corporate is returned only
\* for a recruiting goal with neither the title marker nor a lead signal.
C8_ClassifierFirstMatch ==
  site_type # <<>> =>
     LET AnyCase(hay, needle) ==
           \E i \in 0..(Len(hay) - Len(needle)) :
              \A j \in 1..Len(needle) : hay[i + j] \in {needle[j], UpperChar(needle[j])}
         title_marker == AnyCase(opportunity.title, T.lp) \/ Contains(opportunity.title, T.landing)
         lead_signal == Contains(opportunity.goal, T.lead_kana) \/ AnyCase(opportunity.goal, T.lead)
         recruiting == Contains(opportunity.goal, T.recruit)
     IN  /\ title_marker => site_type[1] = "LP"
         /\ (~title_marker /\ lead_signal) => site_type[1] = "LP"
         /\ (~title_marker /\ ~lead_signal /\ recruiting) => site_type[1] = "Corporate"
         /\ (~title_marker /\ ~lead_signal /\ ~recruiting) => site_type[1] = "LP"
         /\ site_type[1] = "Corporate" <=> (recruiting /\ ~title_marker /\ ~lead_signal)

\* a goal with both a mixed-case lead signal and the recruiting marker, and
\* a title without marker, classified LP
C8_Witness ==
  /\ site_type = <<"LP">>
  /\ Contains(opportunity.goal, T.recruit)
  /\ ~Contains(opportunity.goal, T.lead)
  /\ Contains(Lower(opportunity.goal), T.lead)
  /\ ~Contains(Lower(opportunity.title), T.lp)

\* C9: with the default catalog, generate does not raise, and returns a
\* bundle, for every combination of present or absent optional fields.
C9_NeverRaises ==
  generator = DefaultGenerator =>
     /\ pc # "raised"
     /\ (pc = "idle" /\ context # <<>>) => returned # <<>>

\* a bundle returned for an opportunity with a deadline and a budget band
\* but no persona, no notes, empty lists and unknown asset flags
C9_Witness ==
  /\ generator = DefaultGenerator
  /\ pc = "idle"
  /\ returned # <<>>
  /\ opportunity.deadline # <<>>
  /\ opportunity.budget_band # <<>>
  /\ opportunity.persona = <<>>
  /\ opportunity.notes = <<>>
  /\ opportunity.must_have = <<>>
  /\ opportunity.references = <<>>
  /\ opportunity.constraints = <<>>
  /\ opportunity.assets = Assets("None", "None", "None")

\* C10: a preset section whose key is absent from the catalog stays in the
\* structure at its position with the same kind and variant and no copy,
\* its wire section has no placeholders, it adds no line item to the
\* estimate, and it is not an error: a call raises only for a missing LP
\* preset, a missing rate or a template naming an unknown field.
C10_UndefinedSectionPassThrough ==
  LET IsDefined(sec) == <<sec.kind, sec.variant>> \in DOMAIN generator.sections
  IN  /\ structure # <<>> =>
            LET preset == PresetPages(generator, site_type[1])
                site_map == structure[1].site_map
            IN  /\ Len(site_map) = Len(preset)
                /\ \A p \in 1..Len(preset) :
                      /\ Len(site_map[p].sections) = Len(preset[p].sections)
                      /\ \A i \in 1..Len(preset[p].sections) :
                            ~IsDefined(preset[p].sections[i]) =>
                               /\ site_map[p].sections[i].kind = preset[p].sections[i].kind
                               /\ site_map[p].sections[i].variant = preset[p].sections[i].variant
                               /\ site_map[p].sections[i].copy = <<>>
                               /\ wire # <<>> =>
                                     wire[1].pages[p].sections[i].placeholders = <<>>
                /\ estimate # <<>> =>
                      Len(estimate[1].line_items) - 2 =
                         SumSeq([p \in 1..Len(preset) |->
                                   Cardinality({i \in 1..Len(preset[p].sections) :
                                                  IsDefined(preset[p].sections[i])})])
      /\ pc = "raised" =>
            \/ "LP" \notin DOMAIN generator.page_presets
            \/ DOMAIN generator.rates # {"IA", "Design", "PM"}
            \/ generator.sections = SectionsBadTemplate

\* an estimate built from a two-page preset with an undefined section
\* between defined ones
C10_Witness ==
  /\ estimate # <<>>
  /\ wire # <<>>
  /\ Len(structure[1].site_map) = 2
  /\ <<"Map", "Embed">> \notin DOMAIN generator.sections
  /\ structure[1].site_map[2].sections[1].kind = "Map"
  /\ structure[1].site_map[2].sections[2].copy # <<>>
  /\ Len(estimate[1].line_items) = 5


\* C11: once every call of generate has returned or raised, no object
\* reachable from the context or the bundle of one call is reachable from
\* those of another call, or from the catalog shared by all calls.
C11_NoCrossCallAliasing ==
  pc = "idle" =>
     \A i \in 1..Len(objects) :
        /\ objects[i] \cap CatalogObjects(generator) = {}
        /\ \A j \in 1..Len(objects) : i # j => objects[i] \cap objects[j] = {}


\* C12: a call of generate that raised returned no bundle, a call that
\* returned did so with the structure, wire, estimate and summary of that
\* call all built, and the structure, wire, estimate and summary outputs of
\* a job record are at all times either all set or all unset.
C12_NoPartialBundle ==
  /\ pc = "raised" => Len(returned) < Len(objects)
  /\ (pc = "idle" /\ objects # <<>>) =>
        /\ returned # <<>>
        /\ structure # <<>> /\ wire # <<>> /\ estimate # <<>>
        /\ returned[Len(returned)].structure = structure[1]
        /\ returned[Len(returned)].wire = wire[1]
        /\ returned[Len(returned)].estimate = estimate[1]
        /\ returned[Len(returned)].summary_markdown
             = BuildSummary(opportunity, structure[1], estimate[1])
  /\ job # <<>> =>
        LET outputs == job[1].outputs
            unset == {f \in {"structure", "wire", "estimate", "summary"} : outputs[f] = <<>>}
        IN  Cardinality(unset) \in {0, 4}

\* the worker has completed a job, and its record holds the four outputs
C12_Witness ==
  /\ job # <<>>
  /\ job_pc = "process_post"
  /\ job[1].status = "COMPLETED"
  /\ job[1].outputs.summary = <<returned[1].summary_markdown>>
  /\ job[1].outputs.structure # <<>>


\* C13: the uncertains of a structure are, in this order and with nothing
\* else, one item for each condition that holds: the deadline is absent;
\* assets.copy is false; assets.photo is false; the must-have list is empty.
\* An asset flag that is unknown or true adds no item.
C13_Uncertains ==
  structure # <<>> =>
     LET holds == [item \in {UNCERTAIN.deadline, UNCERTAIN.copy, UNCERTAIN.photo,
                              UNCERTAIN.must_have} |->
                     CASE item = UNCERTAIN.deadline -> Len(opportunity.deadline) = 0
                       [] item = UNCERTAIN.copy -> opportunity.assets.copy = "False"
                       [] item = UNCERTAIN.photo -> opportunity.assets.photo = "False"
                       [] item = UNCERTAIN.must_have -> Len(opportunity.must_have) = 0]
     IN  /\ structure[1].uncertains
              = SelectSeq(<<UNCERTAIN.deadline, UNCERTAIN.copy, UNCERTAIN.photo,
                            UNCERTAIN.must_have>>, LAMBDA item : holds[item])
         /\ opportunity.assets.copy \in {"None", "True"}
               => UNCERTAIN.copy \notin Range(structure[1].uncertains)
         /\ opportunity.assets.photo \in {"None", "True"}
               => UNCERTAIN.photo \notin Range(structure[1].uncertains)

\* no deadline, copy unknown, photo unavailable, must-have list given
C13_Witness ==
  /\ structure # <<>>
  /\ opportunity.deadline = <<>>
  /\ opportunity.assets.copy = "None"
  /\ opportunity.assets.photo = "False"
  /\ opportunity.must_have # <<>>
  /\ structure[1].uncertains = <<UNCERTAIN.deadline, UNCERTAIN.photo>>


\* C14, as stated: with the default catalog, every bundle returned for an
\* opportunity with no deadline, every asset flag unknown and an empty
\* must-have list has no coefficient, exactly the two uncertains "missing
\* deadline" and "empty must-have list", and a base total equal to the
\* adjusted total.
C14_ScenarioAsStated ==
  (/\ generator = DefaultGenerator
   /\ opportunity.deadline = <<>>
   /\ opportunity.assets = Assets("None", "None", "None")
   /\ opportunity.must_have = <<>>) =>
     \A n \in 1..Len(returned) :
        /\ returned[n].estimate.coefficients = <<>>
        /\ returned[n].structure.uncertains = <<UNCERTAIN.deadline, UNCERTAIN.must_have>>
        /\ returned[n].summary_markdown.total_base = returned[n].summary_markdown.total

\* C14, amended: the same for an opportunity whose notes, moreover, are
\* absent or, once upper-cased, do not contain "CMS".
C14_Scenario ==
  (/\ generator = DefaultGenerator
   /\ opportunity.deadline = <<>>
   /\ opportunity.assets = Assets("None", "None", "None")
   /\ opportunity.must_have = <<>>
   /\ \/ opportunity.notes = <<>>
      \/ ~Contains(Upper(opportunity.notes[1]), T.CMS)) =>
     \A n \in 1..Len(returned) :
        /\ returned[n].estimate.coefficients = <<>>
        /\ returned[n].structure.uncertains = <<UNCERTAIN.deadline, UNCERTAIN.must_have>>
        /\ returned[n].summary_markdown.total_base = returned[n].summary_markdown.total

\* a bundle returned in the scenario, for notes that are an empty text
C14_Witness ==
  /\ generator = DefaultGenerator
  /\ opportunity.deadline = <<>>
  /\ opportunity.assets = Assets("None", "None", "None")
  /\ opportunity.must_have = <<>>
  /\ opportunity.notes = << <<>> >>
  /\ returned # <<>>
  /\ returned[1].estimate.coefficients = <<>>
  /\ Len(returned[1].structure.uncertains) = 2


\* C15: the rework risk is in structure.risks iff at least one constraint
\* text of the opportunity, taken on its own, contains the brand-guideline
\* marker; the delivery-delay risk is in structure.risks iff assets.copy is
\* exactly false.
C15_BrandAndCopyRisks ==
  structure # <<>> =>
     /\ RISK.brand \in Range(structure[1].risks)
           <=> \E i \in 1..Len(opportunity.constraints) :
                  Contains(opportunity.constraints[i], T.brand_color)
     /\ RISK.copy \in Range(structure[1].risks) <=> opportunity.assets.copy = "False"


\* C16: when the catalog has no preset, or an empty one, for the inferred
\* site type, the site map of the structure has one page per page of the
\* catalog's LP preset, in preset order, each with the page id of the preset
\* page and the kinds and variants of its sections in preset order.
C16_FallbackToLp ==
  (/\ structure # <<>>
   /\ \/ site_type[1] \notin DOMAIN generator.page_presets
      \/ Len(generator.page_presets[site_type[1]]) = 0) =>
     LET lp == generator.page_presets["LP"]
         site_map == structure[1].site_map
     IN  /\ Len(site_map) = Len(lp)
         /\ \A p \in 1..Len(lp) :
               /\ site_map[p].page_id = lp[p].page_id
               /\ Len(site_map[p].sections) = Len(lp[p].sections)
               /\ \A i \in 1..Len(lp[p].sections) :
                     /\ site_map[p].sections[i].kind = lp[p].sections[i].kind
                     /\ site_map[p].sections[i].variant = lp[p].sections[i].variant

\* a Corporate opportunity on a catalog whose Corporate preset is empty:
\* the structure has the two pages of the LP preset
C16_Witness ==
  /\ structure # <<>>
  /\ site_type = <<"Corporate">>
  /\ generator.page_presets = PresetsTwoPages
  /\ Len(structure[1].site_map) = 2
  /\ structure[1].site_map[2].page_id = T.contact


\* C17, as stated: the page flows being, per page in site-map order,
\* "<Page>->Form" if the page holds a Form section, then "<Page>->CTA" if it
\* holds a CTA section: structure.flows is never empty; it is the list of
\* the page flows when there is one, and it equals the single default
\* "Top->Form" iff no page holds a Form or a CTA section.
C17_FlowsAsStated ==
  structure # <<>> =>
     LET site_map == structure[1].site_map
         kinds(p) == {site_map[p].sections[i].kind : i \in 1..Len(site_map[p].sections)}
         page_flows ==
           Flatten([p \in 1..Len(site_map) |->
              SelectSeq(<< <<TitleCase(site_map[p].page_id), "->Form">>,
                           <<TitleCase(site_map[p].page_id), "->CTA">> >>,
                        LAMBDA flow : (flow[2] = "->Form" /\ "Form" \in kinds(p))
                                      \/ (flow[2] = "->CTA" /\ "CTA" \in kinds(p)))])
         flows == structure[1].flows
     IN  /\ flows # <<>>
         /\ page_flows # <<>> => flows = page_flows
         /\ flows = << <<T.Top, "->Form">> >> <=> page_flows = <<>>

\* C17, amended: structure.flows is never empty; it is the list of the page
\* flows when there is one, and the single default "Top->Form" when no page
\* holds a Form or a CTA section.
C17_Flows ==
  structure # <<>> =>
     LET site_map == structure[1].site_map
         kinds(p) == {site_map[p].sections[i].kind : i \in 1..Len(site_map[p].sections)}
         page_flows ==
           Flatten([p \in 1..Len(site_map) |->
              SelectSeq(<< <<TitleCase(site_map[p].page_id), "->Form">>,
                           <<TitleCase(site_map[p].page_id), "->CTA">> >>,
                        LAMBDA flow : (flow[2] = "->Form" /\ "Form" \in kinds(p))
                                      \/ (flow[2] = "->CTA" /\ "CTA" \in kinds(p)))])
         flows == structure[1].flows
     IN  /\ flows # <<>>
         /\ page_flows # <<>> => flows = page_flows
         /\ page_flows = <<>> => flows = << <<T.Top, "->Form">> >>

\* the default LP page, whose CTA section precedes its Form section
C17_Witness ==
  /\ structure # <<>>
  /\ generator.page_presets = DEFAULT_PAGE_PRESETS
  /\ site_type = <<"LP">>
  /\ structure[1].flows = << <<T.Top, "->Form">>, <<T.Top, "->CTA">> >>


\* C18: the wire draft has the pages of the structure draft, with the same
\* page ids in the same order; each wire page has the sections of its
\* structure page, with the same kind and variant in the same order; a wire
\* section has placeholders iff the catalog defines its kind/variant key;
\* and the frames are Desktop, Tablet, Mobile.
C18_WireIsomorphic ==
  wire # <<>> =>
     LET site_map == structure[1].site_map
         pages == wire[1].pages
     IN  /\ Len(pages) = Len(site_map)
         /\ \A p \in 1..Len(site_map) :
               /\ pages[p].page_id = site_map[p].page_id
               /\ Len(pages[p].sections) = Len(site_map[p].sections)
               /\ \A i \in 1..Len(site_map[p].sections) :
                     /\ pages[p].sections[i].kind = site_map[p].sections[i].kind
                     /\ pages[p].sections[i].variant = site_map[p].sections[i].variant
                     /\ Len(pages[p].sections[i].placeholders) = 1
                           <=> <<pages[p].sections[i].kind, pages[p].sections[i].variant>>
                                  \in DOMAIN generator.sections
         /\ wire[1].frames = <<"Desktop", "Tablet", "Mobile">>

\* a second page whose first section is undefined and whose second is
\* defined
C18_Witness ==
  /\ wire # <<>>
  /\ generator.page_presets = PresetsTwoPages
  /\ generator.sections = DEFAULT_SECTIONS
  /\ Len(wire[1].pages) = 2
  /\ wire[1].pages[2].sections[1].placeholders = <<>>
  /\ wire[1].pages[2].sections[2].placeholders # <<>>


\* C19: the hours of the IA line item are the larger of 4.0 and 1.5 times
\* the number of sections, defined in the catalog or not, of the first page
\* of the structure; for a structure without pages the estimate stage does
\* not raise and the IA hours are 4.0.  (Hours are in tenths.)
C19_IaHours ==
  /\ estimate # <<>> =>
        LET site_map == structure[1].site_map
            ia == estimate[1].line_items[1]
            sections == IF Len(site_map) = 0 THEN 0 ELSE Len(site_map[1].sections)
        IN  /\ ia.role = "IA"
            /\ ia.hours = (IF 15 * sections > 40 THEN 15 * sections ELSE 40)
            /\ Len(site_map) = 0 => ia.hours = 40
  /\ (structure # <<>> /\ Len(structure[1].site_map) = 0) => pc # "raised"

\* a first page of three sections, one of which is not in the catalog
C19_Witness ==
  /\ estimate # <<>>
  /\ generator.page_presets = PresetsTwoPages
  /\ generator.sections = DEFAULT_SECTIONS
  /\ Len(structure[1].site_map[1].sections) = 3
  /\ estimate[1].line_items[1].hours = 45


\* C20: the hours of the PM line item are the larger of 4.0 and 0.6 times
\* the number of line items before it (the IA item and every Design item);
\* they are never below 4.0, and are 4.0 when the site map is empty.
\* (Hours are in tenths.)
C20_PmHours ==
  estimate # <<>> =>
     LET items == estimate[1].line_items
         pm == items[Len(items)]
         before == Cardinality({k \in 1..Len(items) : items[k].role \in {"IA", "Design"}})
     IN  /\ pm.role = "PM"
         /\ before = Len(items) - 1
         /\ pm.hours = (IF 6 * before > 40 THEN 6 * before ELSE 40)
         /\ pm.hours >= 40
         /\ Len(structure[1].site_map) = 0 => pm.hours = 40

\* the default LP page: the IA item and eight Design items, PM hours 5.4
C20_Witness ==
  /\ estimate # <<>>
  /\ generator = DefaultGenerator
  /\ site_type = <<"LP">>
  /\ Len(estimate[1].line_items) = 10
  /\ estimate[1].line_items[10].hours = 54

\* C21: estimate.coefficients is the subsequence of the catalog's coefficient
\* rules whose predicate is true for (opportunity, context), in catalog
\* order, each carrying its rule's name, multiplier and reason; the
\* coefficient block of the summary lists the same coefficients in the same
\* order, and is the single line "- nashi" when there are none.
C21_CoefficientsAreFilteredRules ==
  /\ pc = "summary" =>
       LET rules == generator.coefficient_rules
           holds == {r \in 1..Len(rules) : Predicate(rules[r], opportunity, context[1])}
           coeffs == estimate[1].coefficients
           nth(k) == CHOOSE r \in holds : Cardinality({q \in holds : q <= r}) = k
       IN  /\ Len(coeffs) = Cardinality(holds)
           /\ \A k \in 1..Len(coeffs) :
                 /\ coeffs[k].name = rules[nth(k)].name
                 /\ coeffs[k].multiplier = rules[nth(k)].multiplier
                 /\ coeffs[k].reason = <<rules[nth(k)].reason>>
  /\ \A i \in 1..Len(returned) :
       LET coeffs == returned[i].estimate.coefficients
           lines == returned[i].summary_markdown.coefficients
       IN  IF coeffs = <<>> THEN lines = <<NONE_MARKER>>
           ELSE /\ Len(lines) = Len(coeffs)
                /\ \A k \in 1..Len(coeffs) :
                      /\ lines[k][2] = coeffs[k].name
                      /\ lines[k][4] = Format2f(coeffs[k].multiplier)
                      /\ lines[k][6] = coeffs[k].reason[1]

\* a catalog whose rules are not in the default order, two of which hold
\* and one of which does not, has produced its bundle
C21_Witness ==
  /\ pc = "idle"
  /\ Len(returned) = 1
  /\ Len(generator.coefficient_rules) = 3
  /\ generator.coefficient_rules[1].name = COEFF.cms
  /\ generator.coefficient_rules[2].name = COEFF.copy_missing
  /\ Len(returned[1].estimate.coefficients) = 2
  /\ returned[1].estimate.coefficients[1].name = COEFF.copy_missing
  /\ returned[1].estimate.coefficients[2].name = COEFF.short_deadline
  /\ Len(returned[1].summary_markdown.coefficients) = 2

\* C22: with the default coefficient rules, the coefficient "CMS yoken
\* fukumu" (x1.10) is among the coefficients of the estimate if and only if
\* the notes are present and contain "cms" in some letter case: one of c, C,
\* then one of m, M, then one of s, S.
C22_CmsCoefficient ==
  (pc = "summary" /\ generator.coefficient_rules = DEFAULT_COEFFICIENT_RULES) =>
     LET notes == IF opportunity.notes = <<>> THEN <<>> ELSE opportunity.notes[1]
         mentions == \E i \in 1..(Len(notes) - 2) :
                        /\ notes[i] \in {"c", "C"}
                        /\ notes[i + 1] \in {"m", "M"}
                        /\ notes[i + 2] \in {"s", "S"}
         coeffs == estimate[1].coefficients
     IN  /\ (\E k \in 1..Len(coeffs) :
               coeffs[k].name = COEFF.cms /\ coeffs[k].multiplier = Decimal(110, 100))
            <=> mentions
         /\ Cardinality({k \in 1..Len(coeffs) : coeffs[k].name = COEFF.cms}) <= 1

\* C23: the assumptions of the estimate start with the catalog's default
\* assumptions, unchanged and in order; then comes the photo-sourcing
\* assumption if and only if assets.photo is exactly false; then the joint
\* copywriting assumption if and only if assets.copy is exactly false;
\* nothing else is appended, and the catalog's list stays what it was.
C23_Assumptions ==
  /\ generator.assumptions = DEFAULT_ASSUMPTIONS
  /\ pc = "summary" =>
       LET assumptions == estimate[1].assumptions
           defaults == Len(generator.assumptions)
           photo == IF opportunity.assets.photo = "False" THEN 1 ELSE 0
           copy == IF opportunity.assets.copy = "False" THEN 1 ELSE 0
       IN  /\ Len(assumptions) = defaults + photo + copy
           /\ SubSeq(assumptions, 1, defaults) = generator.assumptions
           /\ photo = 1 =>
                 assumptions[defaults + 1] = "shashin sozai wa betto satsuei / sentei ga hitsuyo"
           /\ copy = 1 =>
                 assumptions[defaults + photo + 1] = "copywriting wa kyodo de jisshi"

\* photo and copy are both explicitly unavailable and the estimate is built
C23_Witness ==
  /\ pc = "summary"
  /\ opportunity.assets.photo = "False"
  /\ opportunity.assets.copy = "False"
  /\ Len(estimate[1].assumptions) = Len(DEFAULT_ASSUMPTIONS) + 2

\* C24: a call of generate goes through classify, structure, wire, estimate
\* and summary in that order (a stage that raises ends the call), and
\* context.structure is set to the structure just built before the
\* estimate stage: the coefficients are those of the predicates evaluated
\* under a context whose structure is the structure of the bundle the call
\* returns, never an unset one or that of another call.
C24_StagesInOrder ==
  /\ [](pc \in {"wire", "estimate", "summary"} => context[1].structure = structure)
  /\ [][/\ pc = "idle" => pc' \in {"idle", "classify"}
        /\ pc = "raised" => pc' \in {"raised", "classify"}
        /\ pc = "classify" => pc' \in {"classify", "structure"}
        /\ pc = "structure" => pc' \in {"structure", "wire", "raised"}
        /\ pc = "wire" => pc' \in {"wire", "estimate", "raised"}
        /\ pc = "estimate" => pc' \in {"estimate", "summary", "raised"}
        /\ pc = "summary" => pc' \in {"summary", "idle"}
        /\ (pc = "estimate" /\ pc' = "summary") =>
              /\ context[1].structure # <<>>
              /\ context[1].structure = structure
              /\ estimate'[1].coefficients = Coefficients(generator, opportunity, context[1])
        /\ (pc = "summary" /\ pc' = "idle") =>
              /\ returned' = Append(returned, returned'[Len(returned')])
              /\ returned'[Len(returned')].structure = context[1].structure[1]
              /\ returned'[Len(returned')].estimate = estimate[1]]_vars

\* the second call of generate on one generator is past its estimate stage,
\* after a first call that returned a bundle
C24_Witness ==
  /\ pc = "summary"
  /\ Len(returned) = 1
  /\ context[1].structure = structure
  /\ estimate[1].coefficients # <<>>

\* C25: no step of a call of generate changes the generator's page presets,
\* section definitions, rate table, default assumptions or coefficient
\* rules, nor the opportunity given to the call; so they are unchanged
\* after any sequence of calls.
C25_NoStateRetained ==
  [][/\ generator' = generator
     /\ context_factory' = context_factory
     /\ pc' # pc => opportunity' = opportunity]_vars

\* two calls of generate on the same generator have returned, the second
\* with an assumption appended to the default ones
C25_Witness ==
  /\ pc = "idle"
  /\ Len(returned) = 2
  /\ Len(returned[2].estimate.assumptions) > Len(generator.assumptions)
  /\ generator.assumptions = DEFAULT_ASSUMPTIONS

\* C26: a failure of post-processing is not fatal.  The post-processing
\* step, failed or not, raises nothing out of the processing of the job and
\* leaves the job record as it was: COMPLETED, with the outputs of the
\* bundle.
C26_PostProcessingNonFatal ==
  /\ []((post_outputs = <<{"error"}>> /\ job_pc \in {"done", "process_publish"}) =>
          /\ exc = <<>>
          /\ job[1].status = "COMPLETED"
          /\ job[1].outputs = BundleOutputs(returned[Len(returned)]))
  /\ [][(job_pc \in {"run_post", "process_post"} /\ job_pc' # job_pc) =>
          /\ job_pc' \in {"done", "process_publish"}
          /\ exc' = <<>>
          /\ job' = job
          /\ job[1].status = "COMPLETED"
          /\ job[1].outputs = BundleOutputs(returned[Len(returned)])]_vars

\* the background task of the API has finished after a post-processing
\* that failed
C26_Witness ==
  /\ environment.ENVIRONMENT = "dev"
  /\ job_pc = "done"
  /\ post_outputs = <<{"error"}>>
  /\ job[1].status = "COMPLETED"

\* C27: the status of a job only moves forward, from QUEUED to IN_PROGRESS
\* and from IN_PROGRESS to COMPLETED or to FAILED; in particular no step
\* that follows the marking of the job as COMPLETED (post-processing,
\* publishing the completion event) marks it FAILED.
C27_StatusMovesForward ==
  [][(job # <<>> /\ job' # <<>>) =>
       \/ job'[1].status = job[1].status
       \/ job[1].status = "QUEUED" /\ job'[1].status = "IN_PROGRESS"
       \/ job[1].status = "IN_PROGRESS" /\ job'[1].status \in {"COMPLETED", "FAILED"}]_vars

\* C28: the worker endpoint answers a push message that has no data, or
\* whose payload lacks job_id, source or record_id, with status 400, and
\* updates no job record for it.
C28_MalformedMessageIs400 ==
  /\ []((message # <<>> /\ response # <<>>) =>
          ((message[1].data = <<>>
            \/ \E f \in {"job_id", "source", "record_id"} : message[1].data[1][f] = <<>>)
           => response = <<400>>))
  /\ [][(message' # message /\ message' # <<>>) =>
          ((message'[1].data = <<>>
            \/ \E f \in {"job_id", "source", "record_id"} : message'[1].data[1][f] = <<>>)
           => job' = job)]_vars

\* C29: every job created by generate_draft eventually is COMPLETED or
\* FAILED, whatever raises on the way: loading the opportunity, generation,
\* or publishing the request.
C29_JobsTerminate ==
  [](job # <<>> => <>(job # <<>> /\ job[1].status \in {"COMPLETED", "FAILED"}))

\* C30: in every state of a job record, QUEUED implies progress 0 and no
\* bundle outputs; COMPLETED implies progress 1.0, the bundle outputs set
\* and no error; FAILED implies progress 1.0, at least one error and no
\* bundle outputs.
C30_RecordInvariant ==
  job # <<>> =>
    LET record == job[1]
        unset == /\ record.outputs.structure = <<>>
                 /\ record.outputs.wire = <<>>
                 /\ record.outputs.estimate = <<>>
                 /\ record.outputs.summary = <<>>
        set == /\ record.outputs.structure # <<>>
               /\ record.outputs.wire # <<>>
               /\ record.outputs.estimate # <<>>
               /\ record.outputs.summary # <<>>
    IN  /\ record.status = "QUEUED" => (record.progress = 0 /\ unset)
        /\ record.status = "COMPLETED" => (record.progress = 10 /\ set /\ record.errors = <<>>)
        /\ record.status = "FAILED" => (record.progress = 10 /\ record.errors # <<>> /\ unset)

====
